---- MODULE Spec2Model ----
(***************************************************************************)
(* Drivers of the Rohde & Schwarz instruments of pymodaq_plugins_rohdeschwarz: *)
(* the microwave source MWsource (hardware/SMA_SMB_MW_sources.py), the     *)
(* power supply HMP2030 (hardware/HMP2030.py) and the actuator plugins     *)
(* that call them.                                                         *)
(*                                                                         *)
(* A driver method is a frame on `stack`; its program counter `pc` is the  *)
(* line number of the source statement it is about to run (a second call   *)
(* made by one source line L has pc 10*L+1).  One step of the model is one *)
(* transport call (write or query), one call, one return, one log line or  *)
(* one raise.  `trace` is what the transport saw since the running         *)
(* top-level operation was called.                                         *)
(*                                                                         *)
(* Units: frequencies in Hz, powers in milli-dBm on the Python side; the   *)
(* wire carries kHz (six decimals of a GHz) and centi-dBm (two decimals);  *)
(* the source answers queries in Hz and centi-dBm.  Volts are integers.    *)
(***************************************************************************)
EXTENDS Integers, Sequences, FiniteSets, TLC

VARIABLES
    mw,        \* the MWsource object: [conn, timeout, model]
    inst,      \* the microwave source at the other end of the transport
    hmp,       \* the HMP2030 object: [conn]
    psu,       \* the power supply at the other end of the transport
    stack,     \* the frames of the running operation, innermost last
    trace,     \* transport calls of the running / last top-level operation
    log,       \* lines printed or logged by the running / last operation
    op,        \* the running / last top-level operation: [name, a, prev, pre]
    result,    \* <<>> while running; <<"ok", value>> or <<"raise", exc>>
    hist,      \* which of the call sequences of interest has just completed
    other      \* a second caller of the same session, while it does not run:
               \* [stack, log, op, result, hist, switches]

vars == <<mw, inst, hmp, psu, stack, trace, log, op, result, hist, other>>

(***************************************************************************)
(* Bounds of the model.                                                    *)
(***************************************************************************)
\* At most MaxPolls replies other than 1 to the completion queries of one
\* top-level operation.
MaxPolls == 1

\* time.sleep(0.2) between two completion queries, in ms.
PollDelayMs == 200
\* self._timeout = 1e4 * ureg.millisecond
DefaultTimeoutMs == 10000

None == <<>>
Some(v) == <<v>>
Last(s) == s[Len(s)]

(***************************************************************************)
(* Formatting and parsing, as the driver does them.                        *)
(***************************************************************************)
\* "{:.6f~P}".format(frequency.to(ureg.GHz)): six decimals of a GHz, that is
\* the frequency rounded to the kHz.  hz is in Hz, the result in kHz.
\* The format rounds the binary float that holds the GHz value, which lies
\* a little above or below the decimal value: a frequency at half a kHz
\* goes up or down, so the result is the set of the strings the format may
\* give.
FormatGHz(hz) ==
    IF hz % 1000 = 500 THEN {hz \div 1000, hz \div 1000 + 1}
    ELSE {(hz + 500) \div 1000}

\* "{:.2f}".format(power.to(ureg.dBm).magnitude): two decimals of a dBm.
\* mdbm is in milli-dBm, the result in centi-dBm.
\* A power at half a hundredth of a dBm goes up or down, as above.
FormatdBm(mdbm) ==
    IF mdbm % 10 = 5 THEN {mdbm \div 10, mdbm \div 10 + 1}
    ELSE {(mdbm + 5) \div 10}

\* The lists that formatting each frequency of xs may give.
FormatListGHz(xs) ==
    LET n == Len(xs)
        all == UNION {FormatGHz(xs[k]) : k \in 1..n}
    IN  {s \in [1..n -> all] : \A k \in 1..n : s[k] \in FormatGHz(xs[k])}

\* The lists that formatting each power of xs may give.
FormatListdBm(xs) ==
    LET n == Len(xs)
        all == UNION {FormatdBm(xs[k]) : k \in 1..n}
    IN  {s \in [1..n -> all] : \A k \in 1..n : s[k] \in FormatdBm(xs[k])}

\* self._connection.query(":FREQ:MODE?").strip("\n").lower(), then
\* "swe" becomes "sweep".
ParseMode(reply) ==
    LET lower == CASE reply = "CW"   -> "cw"
                   [] reply = "LIST" -> "list"
                   [] reply = "SWE"  -> "swe"
                   [] OTHER          -> reply
    IN  IF lower = "swe" THEN "sweep" ELSE lower

\* query("*IDN?").split(",")[1]; a reply is modelled by its fields.
ParseModel(reply) == reply[2]

\* bool(int(float(reply))) of the reply to OUTP:STAT?
ParseRunning(reply) == reply # 0

\* (the loop condition inverted)
OpcPending_Inverted(reply) == reply = 1

\* int(float(reply)) != 1 of the reply to *OPC?: the poll loop goes on.
OpcPending(reply) == reply # 1

(***************************************************************************)
(* The microwave source (SMB100A / SMA100B) as seen through the transport. *)
(* Commands take effect in the order written.                              *)
(***************************************************************************)
InstReset ==
    [running |-> FALSE, mode |-> "CW", trig |-> "POS",
     freq |-> 1000000000, pow |-> -3000,
     lfreq |-> <<1000000000>>, lpow |-> <<-3000>>,
     sstart |-> 100000000, sstop |-> 500000000, sstep |-> 1000000]

\* The settable range of the source: the level in centi-dBm, the lowest
\* frequency in kHz.  A value outside is stored as the nearest limit.
InstPowMin == -14500
InstPowMax == 3000
InstFreqMin == 9
Clamp(v, lo, hi) == IF v < lo THEN lo ELSE IF v > hi THEN hi ELSE v

\* The effect of write(head [arg]) on the source.  *RST keeps the list
\* buffer, which is a file on the instrument.
InstWrite(i, head, arg) ==
    CASE head = "*RST" ->
            [InstReset EXCEPT !.lfreq = i.lfreq, !.lpow = i.lpow]
      [] head = "OUTP:STAT OFF"      -> [i EXCEPT !.running = FALSE]
      [] head = ":OUTP:STAT ON"      -> [i EXCEPT !.running = TRUE]
      [] head = ":FREQ:MODE CW"      -> [i EXCEPT !.mode = "CW"]
      [] head = ":FREQ:MODE LIST"    -> [i EXCEPT !.mode = "LIST"]
      [] head = ":FREQ:MODE SWEEP"   -> [i EXCEPT !.mode = "SWE"]
      [] head = ":FREQ"              ->
            [i EXCEPT !.freq = (IF arg < InstFreqMin THEN InstFreqMin
                                ELSE arg) * 1000]
      [] head = ":POW"               ->
            [i EXCEPT !.pow = Clamp(arg, InstPowMin, InstPowMax)]
      [] head = "LIST:FREQ"          ->
            [i EXCEPT !.lfreq = [k \in 1..Len(arg) |-> arg[k] * 1000]]
      [] head = "LIST:POW"           -> [i EXCEPT !.lpow = arg]
      [] head = ":FREQ:START"        -> [i EXCEPT !.sstart = arg * 1000]
      [] head = ":FREQ:STOP"         -> [i EXCEPT !.sstop = arg * 1000]
      [] head = ":SWE:STEP:LIN"      -> [i EXCEPT !.sstep = arg * 1000]
      [] head = ":TRIG1:SLOP"        -> [i EXCEPT !.trig = arg]
      [] OTHER                       -> i

\* The source's reply to query(head); *OPC? is answered by OpcReplies.
InstReply(i, head) ==
    CASE head = "OUTP:STAT?"   -> IF i.running THEN 1 ELSE 0
      [] head = ":FREQ:MODE?"  -> i.mode
      [] head = ":FREQ?"       -> i.freq
      [] head = ":POW?"        -> i.pow
      [] head = ":LIST:FREQ?"  -> i.lfreq
      [] head = "LIST:POW?"    -> i.lpow
      [] head = ":FREQ:STAR?"  -> i.sstart
      [] head = ":FREQ:STOP?"  -> i.sstop
      [] head = ":SWE:STEP?"   -> i.sstep
      [] head = ":TRIG1:SLOP?" -> i.trig
      [] head = "*IDN?"        ->
            <<"Rohde&Schwarz", "SMB100A", "1406.6000k02/177959", "3.1.19.15">>
      [] OTHER                 -> 0

(***************************************************************************)
(* Frames and instructions.                                                *)
(***************************************************************************)
\* A frame of method fn called with the arguments a.  mode and run are the
\* locals that hold get_status()'s result, rep the last query reply, x the
\* other locals in order of assignment.  t0 is the length of the trace at the
\* call and bind says what the caller does with the returned value.
Frame(fn, pc, a, bind, t0) ==
    [fn |-> fn, pc |-> pc, a |-> a, mode |-> "", run |-> FALSE, rep |-> 0,
     x |-> <<>>, bind |-> bind, t0 |-> t0]

\* alts is the set of the arguments that the call or the write may carry:
\* one, unless a value was formatted at a tie.
ICallAny(fn, pc, alts, bind, next) ==
    [k |-> "call", fn |-> fn, pc |-> pc, alts |-> alts, bind |-> bind,
     next |-> next]
ICall(fn, pc, a, bind, next) == ICallAny(fn, pc, {a}, bind, next)
IWriteAny(dev, head, alts, next) ==
    [k |-> "write", dev |-> dev, head |-> head, alts |-> alts, next |-> next]
IWrite(dev, head, arg, next) == IWriteAny(dev, head, {arg}, next)
IQuery(dev, head, dst, next) ==
    [k |-> "query", dev |-> dev, head |-> head, dst |-> dst, next |-> next]
ISys(what, next) == [k |-> "sys", what |-> what, next |-> next]
ILog(msg, next)  == [k |-> "log", msg |-> msg, next |-> next]
IRet(val)        == [k |-> "ret", val |-> val]
IRaise(exc)      == [k |-> "raise", exc |-> exc]

\* self._command_wait(head [arg]) at a call site
CallWait(head, arg, next) ==
    ICall("_command_wait", 116, <<head, arg>>, "none", next)
\* self._command_wait(head + format(value)) at a call site
CallWaitAny(head, args, next) ==
    ICallAny("_command_wait", 116, {<<head, v>> : v \in args}, "none", next)
\* mode, is_running = self.get_status() at a call site
CallStatus(next) == ICall("get_status", 144, <<>>, "status", next)
\* self.off() at a call site
CallOff(next) == ICall("off", 127, <<>>, "none", next)

(***************************************************************************)
(* MWsource (hardware/SMA_SMB_MW_sources.py)                               *)
(***************************************************************************)
RECURSIVE _command_wait(_, _)
\* _command_wait that asks once and then waits on the reply it has.
_command_wait_AsksOnce(f, pc) ==
    CASE pc = 116 -> IWrite("mw", f.a[1], f.a[2], 117)
      [] pc = 117 -> IWrite("mw", "*WAI", 0, 118)
      [] pc = 118 -> IQuery("mw", "*OPC?", "rep", 119)
      [] pc = 119 -> IF OpcPending(f.rep)
                     THEN ISys("time.sleep", 119)
                     ELSE IRet(None)

_command_wait(f, pc) ==
    CASE pc = 116 -> IWrite("mw", f.a[1], f.a[2], 117)
      [] pc = 117 -> IWrite("mw", "*WAI", 0, 118)
      [] pc = 118 -> IQuery("mw", "*OPC?", "rep", 119)
      [] pc = 119 -> IF OpcPending(f.rep)
                     THEN _command_wait(f, 118)   \* time.sleep(0.2)
                     ELSE _command_wait(f, 120)
      [] pc = 120 -> IRet(None)

\* get_status that answers with the state after a reset instead of asking.
get_status_Assumed(f, pc) ==
    IRet(<<"cw", FALSE>>)

get_status(f, pc) ==
    CASE pc = 144 -> IQuery("mw", "OUTP:STAT?", "run", 145)
      [] pc = 145 -> IQuery("mw", ":FREQ:MODE?", "mode", 148)
      [] pc = 148 -> IRet(<<f.mode, f.run>>)

\* (off() without the test of is_running)
off_AlwaysWrites(f, pc) ==
    CASE pc = 127 -> CallStatus(131)
      [] pc = 131 -> CallWait("OUTP:STAT OFF", 0, 132)
      [] pc = 132 -> IRet(None)

RECURSIVE off(_, _)
off(f, pc) ==
    CASE pc = 127 -> CallStatus(128)
      [] pc = 128 -> IF ~f.run THEN IRet(None) ELSE off(f, 131)
      [] pc = 131 -> CallWait("OUTP:STAT OFF", 0, 132)
      [] pc = 132 -> IRet(None)

\* rep.all() == rep[0] of the list of powers (in centi-dBm): numpy's all()
\* is True when no element is 0, and True == 1.0, False == 0.0.
AllEqualsFirst(rep) ==
    IF \A k \in 1..Len(rep) : rep[k] # 0 THEN rep[1] = 100 ELSE rep[1] = 0

RECURSIVE get_power(_, _)
get_power(f, pc) ==
    CASE pc = 163 -> CallStatus(165)
      [] pc = 165 -> IF f.mode \in {"cw", "sweep"} THEN get_power(f, 166)
                     ELSE IF f.mode = "list" THEN get_power(f, 169)
                     ELSE IRaise("UnboundLocalError")
      [] pc = 166 -> IQuery("mw", ":POW?", "rep", 175)
      [] pc = 169 -> IQuery("mw", "LIST:POW?", "rep", 172)
      [] pc = 172 -> IF AllEqualsFirst(f.rep)
                     THEN ISys("rep = rep[0]", 173) ELSE get_power(f, 175)
      \* after line 173 rep is the first value of the list
      [] pc = 173 -> IRet(f.rep[1])
      [] pc = 175 -> IRet(f.rep)

\* get_frequency that reports the start register as it is.
RECURSIVE get_frequency_StartRegister(_, _)
get_frequency_StartRegister(f, pc) ==
    CASE pc = 190 -> CallStatus(191)
      [] pc = 191 -> IF f.mode = "cw"
                     THEN get_frequency_StartRegister(f, 192)
                     ELSE IF f.mode = "sweep"
                     THEN get_frequency_StartRegister(f, 194)
                     ELSE IF f.mode = "list"
                     THEN get_frequency_StartRegister(f, 199)
                     ELSE IRaise("UnboundLocalError")
      [] pc = 192 -> IQuery("mw", ":FREQ?", "rep", 202)
      [] pc = 194 -> IQuery("mw", ":FREQ:STAR?", "x", 195)
      [] pc = 195 -> IQuery("mw", ":FREQ:STOP?", "x", 196)
      [] pc = 196 -> IQuery("mw", ":SWE:STEP?", "x", 197)
      [] pc = 197 -> IRet(<<f.x[1], f.x[2], f.x[3]>>)
      [] pc = 199 -> IQuery("mw", ":LIST:FREQ?", "rep", 202)
      [] pc = 202 -> IRet(f.rep)

RECURSIVE get_frequency(_, _)
get_frequency(f, pc) ==
    CASE pc = 190 -> CallStatus(191)
      [] pc = 191 -> IF f.mode = "cw" THEN get_frequency(f, 192)
                     ELSE IF f.mode = "sweep" THEN get_frequency(f, 194)
                     ELSE IF f.mode = "list" THEN get_frequency(f, 199)
                     ELSE IRaise("UnboundLocalError")
      [] pc = 192 -> IQuery("mw", ":FREQ?", "rep", 202)
      [] pc = 194 -> IQuery("mw", ":FREQ:STAR?", "x", 195)
      [] pc = 195 -> IQuery("mw", ":FREQ:STOP?", "x", 196)
      [] pc = 196 -> IQuery("mw", ":SWE:STEP?", "x", 197)
      [] pc = 197 -> IRet(<<f.x[1] + f.x[3], f.x[2], f.x[3]>>)
      [] pc = 199 -> IQuery("mw", ":LIST:FREQ?", "rep", 202)
      [] pc = 202 -> IRet(f.rep)

\* (cw_on() returning whenever the mode is cw, running or not)
RECURSIVE cw_on_ReturnsInCw(_, _)
cw_on_ReturnsInCw(f, pc) ==
    CASE pc = 208 -> CallStatus(209)
      [] pc = 209 -> IF f.mode = "cw" THEN IRet(None)
                     ELSE IF f.run THEN CallOff(215)
                     ELSE cw_on_ReturnsInCw(f, 215)
      [] pc = 215 -> IF f.mode # "cw"
                     THEN CallWait(":FREQ:MODE CW", 0, 218)
                     ELSE cw_on_ReturnsInCw(f, 218)
      [] pc = 218 -> CallWait(":OUTP:STAT ON", 0, 219)
      [] pc = 219 -> IRet(None)

\* (cw_on() switching the mode before it calls off())
RECURSIVE cw_on_SwitchesFirst(_, _)
cw_on_SwitchesFirst(f, pc) ==
    CASE pc = 208 -> CallStatus(209)
      [] pc = 209 -> IF f.mode # "cw"
                     THEN CallWait(":FREQ:MODE CW", 0, 215)
                     ELSE cw_on_SwitchesFirst(f, 215)
      [] pc = 215 -> IF f.run
                     THEN IF f.mode = "cw" THEN IRet(None) ELSE CallOff(218)
                     ELSE cw_on_SwitchesFirst(f, 218)
      [] pc = 218 -> CallWait(":OUTP:STAT ON", 0, 219)
      [] pc = 219 -> IRet(None)

RECURSIVE cw_on(_, _)
cw_on(f, pc) ==
    CASE pc = 208 -> CallStatus(209)
      [] pc = 209 -> IF f.run
                     THEN IF f.mode = "cw" THEN IRet(None) ELSE CallOff(215)
                     ELSE cw_on(f, 215)
      [] pc = 215 -> IF f.mode # "cw"
                     THEN CallWait(":FREQ:MODE CW", 0, 218)
                     ELSE cw_on(f, 218)
      [] pc = 218 -> CallWait(":OUTP:STAT ON", 0, 219)
      [] pc = 219 -> IRet(None)

\* (set_cw_params() without the call of off())
RECURSIVE set_cw_params_NoOff(_, _)
set_cw_params_NoOff(f, pc) ==
    CASE pc = 239 -> CallStatus(244)
      [] pc = 244 -> IF f.mode # "cw"
                     THEN CallWait(":FREQ:MODE CW", 0, 248)
                     ELSE set_cw_params_NoOff(f, 248)
      [] pc = 248 -> IF f.a[1] # None
                     THEN CallWaitAny(":FREQ", FormatGHz(f.a[1][1]), 253)
                     ELSE set_cw_params_NoOff(f, 253)
      [] pc = 253 -> IF f.a[2] # None
                     THEN CallWaitAny(":POW", FormatdBm(f.a[2][1]), 258)
                     ELSE set_cw_params_NoOff(f, 258)
      [] pc = 258 -> CallStatus(259)
      [] pc = 259 -> ICall("get_frequency", 190, <<>>, "x", 2591)
      [] pc = 2591 -> ICall("get_power", 163, <<>>, "x", 2592)
      [] pc = 2592 -> IRet(<<f.mode, f.x[1], f.x[2]>>)

\* (set_cw_params() returning the values it was given)
RECURSIVE set_cw_params_ReturnsRequested(_, _)
set_cw_params_ReturnsRequested(f, pc) ==
    CASE pc = 239 -> CallStatus(240)
      [] pc = 240 -> IF f.run THEN CallOff(244)
                     ELSE set_cw_params_ReturnsRequested(f, 244)
      [] pc = 244 -> IF f.mode # "cw"
                     THEN CallWait(":FREQ:MODE CW", 0, 248)
                     ELSE set_cw_params_ReturnsRequested(f, 248)
      [] pc = 248 -> IF f.a[1] # None
                     THEN CallWaitAny(":FREQ", FormatGHz(f.a[1][1]), 253)
                     ELSE set_cw_params_ReturnsRequested(f, 253)
      [] pc = 253 -> IF f.a[2] # None
                     THEN CallWaitAny(":POW", FormatdBm(f.a[2][1]), 258)
                     ELSE set_cw_params_ReturnsRequested(f, 258)
      [] pc = 258 -> CallStatus(259)
      [] pc = 259 -> ICall("get_frequency", 190, <<>>, "x", 2591)
      [] pc = 2591 -> ICall("get_power", 163, <<>>, "x", 2592)
      [] pc = 2592 ->
            IRet(<<f.mode,
                   IF f.a[1] # None THEN f.a[1][1] ELSE f.x[1],
                   IF f.a[2] # None THEN (f.a[2][1] + 5) \div 10
                   ELSE f.x[2]>>)

\* a = <<frequency, power>>, each None or Some(value)
RECURSIVE set_cw_params(_, _)
set_cw_params(f, pc) ==
    CASE pc = 239 -> CallStatus(240)
      [] pc = 240 -> IF f.run THEN CallOff(244) ELSE set_cw_params(f, 244)
      [] pc = 244 -> IF f.mode # "cw"
                     THEN CallWait(":FREQ:MODE CW", 0, 248)
                     ELSE set_cw_params(f, 248)
      [] pc = 248 -> IF f.a[1] # None
                     THEN CallWaitAny(":FREQ", FormatGHz(f.a[1][1]), 253)
                     ELSE set_cw_params(f, 253)
      [] pc = 253 -> IF f.a[2] # None
                     THEN CallWaitAny(":POW", FormatdBm(f.a[2][1]), 258)
                     ELSE set_cw_params(f, 258)
      [] pc = 258 -> CallStatus(259)
      [] pc = 259 -> ICall("get_frequency", 190, <<>>, "x", 2591)
      [] pc = 2591 -> ICall("get_power", 163, <<>>, "x", 2592)
      [] pc = 2592 -> IRet(<<f.mode, f.x[1], f.x[2]>>)

RECURSIVE list_on(_, _)
\* list_on that returns whenever the output is running.
list_on_ReturnsWhenRunning(f, pc) ==
    CASE pc = 265 -> CallStatus(266)
      [] pc = 266 -> IF f.run THEN IRet(None)
                     ELSE CallWait(":OUTP:STAT ON", 0, 276)
      [] pc = 276 -> IRet(None)

list_on(f, pc) ==
    CASE pc = 265 -> CallStatus(266)
      [] pc = 266 -> IF f.run
                     THEN IF f.mode = "list" THEN IRet(None) ELSE CallOff(272)
                     ELSE list_on(f, 272)
      [] pc = 272 -> IF f.mode # "list"
                     THEN CallWait(":FREQ:MODE LIST", 0, 274)
                     ELSE list_on(f, 275)
      [] pc = 274 -> IWrite("mw", ":LIST:SEL", "My_list", 275)
      [] pc = 275 -> CallWait(":OUTP:STAT ON", 0, 276)
      [] pc = 276 -> IRet(None)

\* a = <<frequency, power>>: frequency is None or Some(sequence of Hz),
\* power is None, Some(<<"scalar", p>>) or Some(<<"seq", sequence>>).
\* With both given, a scalar power is multiplied by np.ones(len(frequency))
\* (lines 301-303): the registry is the default UnitRegistry(), which does
\* not multiply a quantity in dBm, a logarithmic unit, and raises
\* OffsetUnitCalculusError.
RECURSIVE set_list(_, _)
set_list(f, pc) ==
    LET freq  == f.a[1][1]
        power == f.a[2][1][2]
    IN
    CASE pc = 297 -> CallStatus(298)
      [] pc = 298 -> IF f.run THEN CallOff(300) ELSE set_list(f, 300)
      [] pc = 300 -> IF f.a[1] # None /\ f.a[2] # None
                     THEN set_list(f, 301) ELSE set_list(f, 320)
      [] pc = 301 -> IF f.a[2][1][1] = "scalar"
                     THEN IRaise("OffsetUnitCalculusError")
                     ELSE set_list(f, 304)
      [] pc = 304 -> IF Len(freq) # Len(power)
                     THEN ILog("Number of frequencies and power values not matching!", 306)
                     ELSE set_list(f, 308)
      [] pc = 306 -> IRet(None)
      [] pc = 308 -> IWrite("mw", ":LIST:SEL", "My_list", 313)
      [] pc = 313 -> IWriteAny("mw", "LIST:FREQ",
                               FormatListGHz(freq), 318)
      [] pc = 318 -> IWriteAny("mw", "LIST:POW",
                               FormatListdBm(power), 320)
      [] pc = 320 -> CallWait(":FREQ:MODE LIST", 0, 322)
      [] pc = 322 -> IWrite("mw", "LIST:MODE STEP", 0, 324)
      [] pc = 324 -> IWrite("mw", "LIST:TRIG:SOUR EXT", 0, 327)
      [] pc = 327 -> CallStatus(328)
      [] pc = 328 -> ICall("get_frequency", 190, <<>>, "x", 3281)
      [] pc = 3281 -> ICall("get_power", 163, <<>>, "x", 3282)
      [] pc = 3282 -> IRet(<<f.mode, f.x[1], f.x[2]>>)

\* reset_list_position that stops the output before the reset.
reset_list_position_OffFirst(f, pc) ==
    CASE pc = 334 -> CallOff(3341)
      [] pc = 3341 -> CallWait(":LIST:RES", 0, 335)
      [] pc = 335 -> IRet(None)

reset_list_position(f, pc) ==
    CASE pc = 334 -> CallWait(":LIST:RES", 0, 335)
      [] pc = 335 -> IRet(None)

RECURSIVE sweep_on(_, _)
sweep_on(f, pc) ==
    CASE pc = 341 -> CallStatus(342)
      [] pc = 342 -> IF f.run
                     THEN IF f.mode = "sweep" THEN IRet(None) ELSE CallOff(348)
                     ELSE sweep_on(f, 348)
      [] pc = 348 -> IF f.mode # "sweep"
                     THEN CallWait(":FREQ:MODE SWEEP", 0, 350)
                     ELSE sweep_on(f, 350)
      [] pc = 350 -> CallWait(":OUTP:STAT ON", 0, 351)
      [] pc = 351 -> IRet(None)

\* (set_sweep() sending start as it was given)
RECURSIVE set_sweep_StartAsGiven(_, _)
set_sweep_StartAsGiven(f, pc) ==
    CASE pc = 379 -> CallStatus(380)
      [] pc = 380 -> IF f.run THEN CallOff(383)
                     ELSE set_sweep_StartAsGiven(f, 383)
      [] pc = 383 -> IF f.mode # "sweep"
                     THEN CallWait(":FREQ:MODE SWEEP", 0, 386)
                     ELSE set_sweep_StartAsGiven(f, 386)
      [] pc = 386 -> IF f.a[1] # None /\ f.a[2] # None /\ f.a[3] # None
                     THEN CallWait(":SWE:MODE STEP", 0, 388)
                     ELSE set_sweep_StartAsGiven(f, 395)
      [] pc = 388 -> CallWait(":SWE:SPAC LIN", 0, 389)
      [] pc = 389 -> CallWaitAny(":FREQ:START", FormatGHz(f.a[1][1]), 391)
      [] pc = 391 -> CallWaitAny(":FREQ:STOP", FormatGHz(f.a[2][1]), 392)
      [] pc = 392 -> CallWaitAny(":SWE:STEP:LIN", FormatGHz(f.a[3][1]), 395)
      [] pc = 395 -> IF f.a[4] # None
                     THEN CallWaitAny(":POW", FormatdBm(f.a[4][1]), 399)
                     ELSE set_sweep_StartAsGiven(f, 399)
      [] pc = 399 -> CallWait("TRIG:FSW:SOUR EXT", 0, 401)
      [] pc = 401 -> ICall("get_frequency", 190, <<>>, "x", 402)
      [] pc = 402 -> IRaise("NameError")

\* a = <<start, stop, step, power>>, each None or Some(value)
RECURSIVE set_sweep(_, _)
set_sweep(f, pc) ==
    CASE pc = 379 -> CallStatus(380)
      [] pc = 380 -> IF f.run THEN CallOff(383) ELSE set_sweep(f, 383)
      [] pc = 383 -> IF f.mode # "sweep"
                     THEN CallWait(":FREQ:MODE SWEEP", 0, 386)
                     ELSE set_sweep(f, 386)
      [] pc = 386 -> IF f.a[1] # None /\ f.a[2] # None /\ f.a[3] # None
                     THEN CallWait(":SWE:MODE STEP", 0, 388)
                     ELSE set_sweep(f, 395)
      [] pc = 388 -> CallWait(":SWE:SPAC LIN", 0, 389)
      [] pc = 389 -> CallWaitAny(":FREQ:START",
                              FormatGHz(f.a[1][1] - f.a[3][1]), 391)
      [] pc = 391 -> CallWaitAny(":FREQ:STOP", FormatGHz(f.a[2][1]), 392)
      [] pc = 392 -> CallWaitAny(":SWE:STEP:LIN", FormatGHz(f.a[3][1]), 395)
      [] pc = 395 -> IF f.a[4] # None
                     THEN CallWaitAny(":POW", FormatdBm(f.a[4][1]), 399)
                     ELSE set_sweep(f, 399)
      [] pc = 399 -> CallWait("TRIG:FSW:SOUR EXT", 0, 401)
      [] pc = 401 -> ICall("get_frequency", 190, <<>>, "x", 402)
      \* line 402 reads sweeps_freqs, a name that is never assigned
      [] pc = 402 -> IRaise("NameError")

reset_sweep_position(f, pc) ==
    CASE pc = 409 -> CallWait(":ABOR:SWE", 0, 410)
      [] pc = 410 -> IRet(None)

\* a = <<trigger_edge>>
RECURSIVE set_ext_trigger(_, _)
set_ext_trigger(f, pc) ==
    CASE pc = 423 -> CallStatus(424)
      [] pc = 424 -> IF f.run THEN CallOff(427) ELSE set_ext_trigger(f, 427)
      [] pc = 427 -> IF f.a[1] \in {"rising", "falling"}
                     THEN set_ext_trigger(f, 435)
                     ELSE ILog("Unknown trigger edge setting!", 433)
      [] pc = 433 -> IRet(None)
      [] pc = 435 -> CallWait(":TRIG1:SLOP",
                              IF f.a[1] = "rising" THEN "POS" ELSE "NEG", 436)
      [] pc = 436 -> IRet(None)

get_ext_trigger(f, pc) ==
    CASE pc = 446 -> IQuery("mw", ":TRIG1:SLOP?", "rep", 447)
      [] pc = 447 -> IF f.rep = "POS" THEN IRet("rising") ELSE IRet("falling")

\* a = <<address>>, None or Some(visa address).  Lines 90-94 are inside try;
\* except returns False.  The address is set before the try.
RECURSIVE open_communication(_, _)
open_communication(f, pc) ==
    CASE pc = 85 -> ISys("visa.ResourceManager", 86)
      [] pc = 86 -> IF f.a[1] # None
                    THEN ICall("set_address", 48, <<f.a[1][1]>>, "none", 90)
                    ELSE open_communication(f, 90)
      [] pc = 90 -> ISys("rm.open_resource", 92)
      [] pc = 92 -> IQuery("mw", "*IDN?", "model", 93)
      [] pc = 93 -> CallWait("*CLS", 0, 94)
      [] pc = 94 -> CallWait("*RST", 0, 98)
      [] pc = 96 -> IRet(FALSE)
      [] pc = 98 -> IRet(TRUE)

close_communication(f, pc) ==
    CASE pc = 104 -> ISys("rm.close", 105)
      [] pc = 105 -> IRet(None)

get_address(f, pc) ==
    CASE pc = 34 -> IRet(mw.address)

get_timeout(f, pc) ==
    CASE pc = 59 -> IRet(mw.timeout)

\* a = <<visa_address>>
set_address(f, pc) ==
    CASE pc = 48 -> ISys("self._address", 49)
      [] pc = 49 -> IRet(None)

\* a = <<timeout>>, in ms
set_timeout(f, pc) ==
    CASE pc = 72 -> ISys("self._timeout", 73)
      [] pc = 73 -> IRet(None)

(***************************************************************************)
(* DAQ_Move_RSMWsource (daq_move_plugins/daq_move_RSMWsource.py)           *)
(***************************************************************************)
\* a = <<value>>, the target frequency in Hz; no bounds, no scaling.
DAQ_Move_RSMWsource_move_abs(f, pc) ==
    CASE pc = 128 -> ICall("set_cw_params", 239, <<Some(f.a[1]), None>>,
                           "none", 129)
      [] pc = 129 -> ICall("cw_on", 208, <<>>, "none", 131)
      [] pc = 131 -> IRet(None)

\* DAQ_Move_MultiRSMWsource.move_abs (daq_move_MultiRSMWsource.py):
\* a = <<axis_name, value>>, value in Hz or in milli-dBm.
RECURSIVE DAQ_Move_MultiRSMWsource_move_abs(_, _)
DAQ_Move_MultiRSMWsource_move_abs(f, pc) ==
    CASE pc = 131 -> IF f.a[1] = "Frequency"
                     THEN DAQ_Move_MultiRSMWsource_move_abs(f, 133)
                     ELSE DAQ_Move_MultiRSMWsource_move_abs(f, 138)
      [] pc = 133 -> ICall("set_cw_params", 239, <<Some(f.a[2]), None>>,
                           "none", 134)
      [] pc = 134 -> ICall("cw_on", 208, <<>>, "none", 135)
      [] pc = 135 -> IRet(None)
      [] pc = 138 -> ICall("set_cw_params", 239, <<None, Some(f.a[2])>>,
                           "none", 139)
      [] pc = 139 -> ICall("cw_on", 208, <<>>, "none", 140)
      [] pc = 140 -> IRet(None)

\* DAQ_Move_MultiRSMWsource.close: a = <<is_master>>
\* close that closes the communication for a slave axis too.
DAQ_Move_MultiRSMWsource_close_AnyAxis(f, pc) ==
    CASE pc = 68 -> ICall("close_communication", 104, <<>>, "none", 70)
      [] pc = 70 -> IRet(None)

DAQ_Move_MultiRSMWsource_close(f, pc) ==
    CASE pc = 68 -> IF f.a[1]
                    THEN ICall("close_communication", 104, <<>>, "none", 70)
                    ELSE IRet(None)
      [] pc = 70 -> IRet(None)

\* DAQ_Move_RSMWsource.commit_settings: a = <<param.name(), param.value()>>,
\* the value an address, a power in milli-dBm or a timeout in s.
RECURSIVE DAQ_Move_RSMWsource_commit_settings(_, _)
DAQ_Move_RSMWsource_commit_settings(f, pc) ==
    CASE pc = 69 -> IF f.a[1] = "address"
                    THEN ICall("set_address", 48, <<f.a[2]>>, "none", 78)
                    ELSE DAQ_Move_RSMWsource_commit_settings(f, 71)
      [] pc = 71 -> IF f.a[1] = "power"
                    THEN ICall("set_cw_params", 239, <<None, Some(f.a[2])>>,
                               "none", 78)
                    ELSE DAQ_Move_RSMWsource_commit_settings(f, 75)
      [] pc = 75 -> IF f.a[1] = "timeout"
                    THEN ICall("set_timeout", 72, <<f.a[2] * 1000>>,
                               "none", 78)
                    ELSE IRet(None)
      [] pc = 78 -> IRet(None)

\* DAQ_Move_MultiRSMWsource.commit_settings: a = <<param.name(),
\* param.value()>>; there is no power setting.
RECURSIVE DAQ_Move_MultiRSMWsource_commit_settings(_, _)
DAQ_Move_MultiRSMWsource_commit_settings(f, pc) ==
    CASE pc = 80 -> IF f.a[1] = "address"
                    THEN ICall("set_address", 48, <<f.a[2]>>, "none", 87)
                    ELSE DAQ_Move_MultiRSMWsource_commit_settings(f, 83)
      [] pc = 83 -> IF f.a[1] = "timeout"
                    THEN ICall("set_timeout", 72, <<f.a[2] * 1000>>,
                               "none", 87)
                    ELSE IRet(None)
      [] pc = 87 -> IRet(None)

\* DAQ_Move_RSMWsource.ini_stage: a = <<the address setting>>.  x[1] is
\* initialized, x[2..4] the address, power and timeout read back into the
\* settings.  The session is a new MWsource(); info is its model, which no
\* call after line 100 changes.
DAQ_Move_RSMWsource_ini_stage(f, pc) ==
    CASE pc = 95 -> ISys("MWsource", 98)
      [] pc = 98 -> ICall("open_communication", 85, <<Some(f.a[1])>>,
                          "x", 101)
      [] pc = 101 -> IF f.x[1]
                     THEN ICall("set_cw_params", 239, <<None, None>>,
                                "none", 105)
                     ELSE IRet(<<mw.model, FALSE>>)
      [] pc = 105 -> ICall("get_address", 34, <<>>, "x", 107)
      [] pc = 107 -> ICall("get_power", 163, <<>>, "x", 109)
      [] pc = 109 -> ICall("get_timeout", 59, <<>>, "x", 112)
      [] pc = 112 -> IRet(<<mw.model, f.x[1]>>)

\* DAQ_Move_MultiRSMWsource.ini_stage: a = <<is_master, the address
\* setting>>.  The master opens a new MWsource(); a slave takes the
\* controller it is given and is initialized.
RECURSIVE DAQ_Move_MultiRSMWsource_ini_stage(_, _)
DAQ_Move_MultiRSMWsource_ini_stage(f, pc) ==
    LET initialized == IF f.a[1] THEN f.x[1] ELSE TRUE IN
    CASE pc = 104 -> IF f.a[1] THEN ISys("MWsource", 106)
                     ELSE DAQ_Move_MultiRSMWsource_ini_stage(f, 110)
      [] pc = 106 -> ICall("open_communication", 85, <<Some(f.a[2])>>,
                           "x", 110)
      [] pc = 110 -> IF initialized
                     THEN ICall("set_cw_params", 239, <<None, None>>,
                                "none", 114)
                     ELSE IRet(<<mw.model, FALSE>>)
      [] pc = 114 -> ICall("get_address", 34, <<>>, "x", 115)
      [] pc = 115 -> ICall("get_timeout", 59, <<>>, "x", 117)
      [] pc = 117 -> IRet(<<mw.model, initialized>>)

\* DAQ_Move_RSMWsource.move_rel: a = <<value, current_position>> in Hz; no
\* bounds, no scaling.
DAQ_Move_RSMWsource_move_rel(f, pc) ==
    CASE pc = 150 -> ICall("set_cw_params", 239,
                           <<Some(f.a[1] + f.a[2]), None>>, "none", 151)
      [] pc = 151 -> ICall("cw_on", 208, <<>>, "none", 153)
      [] pc = 153 -> IRet(None)

\* DAQ_Move_MultiRSMWsource.move_rel: a = <<axis_name, value,
\* current_position>>, in Hz or in milli-dBm.
RECURSIVE DAQ_Move_MultiRSMWsource_move_rel(_, _)
DAQ_Move_MultiRSMWsource_move_rel(f, pc) ==
    CASE pc = 152 -> IF f.a[1] = "Frequency"
                     THEN DAQ_Move_MultiRSMWsource_move_rel(f, 154)
                     ELSE DAQ_Move_MultiRSMWsource_move_rel(f, 159)
      [] pc = 154 -> ICall("set_cw_params", 239,
                           <<Some(f.a[2] + f.a[3]), None>>, "none", 155)
      [] pc = 155 -> ICall("cw_on", 208, <<>>, "none", 156)
      [] pc = 156 -> IRet(None)
      [] pc = 159 -> ICall("set_cw_params", 239,
                           <<None, Some(f.a[2] + f.a[3])>>, "none", 160)
      [] pc = 160 -> ICall("cw_on", 208, <<>>, "none", 161)
      [] pc = 161 -> IRet(None)

DAQ_Move_MultiRSMWsource_stop_motion(f, pc) ==
    CASE pc = 169 -> CallOff(170)
      [] pc = 170 -> IRet(None)

DAQ_Move_RSMWsource_close(f, pc) ==
    CASE pc = 58 -> ICall("close_communication", 104, <<>>, "none", 59)
      [] pc = 59 -> IRet(None)

DAQ_Move_RSMWsource_stop_motion(f, pc) ==
    CASE pc = 161 -> CallOff(162)
      [] pc = 162 -> IRet(None)

(***************************************************************************)
(* The power supply (HMP2030) as seen through the transport: one selected  *)
(* channel, and per channel the output state and the set-points.           *)
(***************************************************************************)
Channels == {1, 2, 3}

PsuReset ==
    [sel |-> 1, out |-> [c \in Channels |-> FALSE],
     volt |-> [c \in Channels |-> 0], curr |-> [c \in Channels |-> 0],
     ovp |-> [c \in Channels |-> 33], fuse |-> [c \in Channels |-> FALSE]]

PsuWrite(s, head, arg) ==
    CASE head = "INST OUT"  -> [s EXCEPT !.sel = arg]
      [] head = "OUTP ON"   -> [s EXCEPT !.out[s.sel] = TRUE]
      [] head = "OUTP OFF"  -> [s EXCEPT !.out[s.sel] = FALSE]
      [] head = "VOLT"      -> [s EXCEPT !.volt[s.sel] = arg]
      [] head = "CURR"      -> [s EXCEPT !.curr[s.sel] = arg]
      [] head = "VOLT:PROT" -> [s EXCEPT !.ovp[s.sel] = arg]
      [] head = "FUSE ON"   -> [s EXCEPT !.fuse[s.sel] = TRUE]
      [] head = "*RST"      -> PsuReset
      [] OTHER              -> s

PsuReply(s, head) ==
    CASE head = "INST:NSEL?" -> s.sel
      [] head = "MEAS:VOLT?" -> IF s.out[s.sel] THEN s.volt[s.sel] ELSE 0
      [] head = "MEAS:CURR?" -> IF s.out[s.sel] THEN s.curr[s.sel] ELSE 0
      [] head = "VOLT?"      -> s.volt[s.sel]
      [] head = "CURR?"      -> s.curr[s.sel]
      [] OTHER               -> 0

(***************************************************************************)
(* HMP2030 (hardware/HMP2030.py)                                           *)
(***************************************************************************)
\* HMP2030._voltage_max_1 .. _current_max_3
voltage_max_1 == 32
current_max_1 == 5
voltage_max_2 == 32
current_max_2 == 5
voltage_max_3 == 32
current_max_3 == 5

\* self._set_channel(channel) at a call site
CallSetChannel(c, next) == ICall("HMP2030._set_channel", 52, <<c>>, "none", next)

\* Line 38 is inside try; except logs and returns False.
HMP2030_open_communication(f, pc) ==
    CASE pc = 33 -> ISys("pyvisa.ResourceManager", 38)
      [] pc = 38 -> ISys("hmp.rm.open_resource", 43)
      [] pc = 40 -> ILog("Could not connect to hardware. Please check the wires and the address.", 41)
      [] pc = 41 -> IRet(FALSE)
      [] pc = 43 -> IRet(TRUE)

HMP2030_close_communication(f, pc) ==
    CASE pc = 47 -> ICall("HMP2030._set_all_off", 115, <<>>, "none", 48)
      [] pc = 48 -> ISys("self._inst.close", 49)
      [] pc = 49 -> IRet(None)

\* a = <<channel>>
HMP2030__set_channel(f, pc) ==
    CASE pc = 52 -> IF f.a[1] \in {1, 2, 3}
                    THEN IWrite("psu", "INST OUT", f.a[1], 56)
                    ELSE ILog("Wrong channel number. Chose 1, 2 or 3.", 56)
      [] pc = 56 -> IRet(None)

HMP2030__get_channel(f, pc) ==
    CASE pc = 59 -> IQuery("psu", "INST:NSEL?", "rep", 60)
      [] pc = 60 -> IRet(f.rep)

\* a = <<channel, ctrparam>>, channel None or Some(c)
RECURSIVE HMP2030_get_control_limit(_, _)
HMP2030_get_control_limit(f, pc) ==
    LET channel == IF f.a[1] = None THEN f.x[1] ELSE f.a[1][1]
        maxi == IF f.a[2] = "VOLT"
                THEN CASE channel = 1 -> voltage_max_1
                       [] channel = 2 -> voltage_max_2
                       [] channel = 3 -> voltage_max_3
                       [] OTHER       -> 0
                ELSE CASE channel = 1 -> current_max_1
                       [] channel = 2 -> current_max_2
                       [] channel = 3 -> current_max_3
                       [] OTHER       -> 0
    IN
    CASE pc = 209 -> IF f.a[1] = None
                     THEN ICall("HMP2030._get_channel", 59, <<>>, "x", 211)
                     ELSE HMP2030_get_control_limit(f, 211)
      [] pc = 211 -> IRet(<<0, maxi>>)

\* a = <<value, channel>>, channel None or Some(c)
RECURSIVE HMP2030__set_voltage(_, _)
HMP2030__set_voltage(f, pc) ==
    CASE pc = 70 -> IF f.a[2] # None
                    THEN CallSetChannel(f.a[2][1], 72)
                    ELSE HMP2030__set_voltage(f, 72)
      [] pc = 72 -> ICall("HMP2030.get_control_limit", 209,
                          <<f.a[2], "VOLT">>, "x", 73)
      [] pc = 73 -> IF f.x[1][1] <= f.a[1] /\ f.a[1] <= f.x[1][2]
                    THEN IWrite("psu", "VOLT", f.a[1], 77)
                    ELSE ILog("Voltage value out of range", 77)
      [] pc = 77 -> IRet(None)

\* a = <<channel>>, channel None or Some(c)
RECURSIVE HMP2030__get_voltage(_, _)
HMP2030__get_voltage(f, pc) ==
    CASE pc = 80 -> IF f.a[1] # None
                    THEN CallSetChannel(f.a[1][1], 82)
                    ELSE HMP2030__get_voltage(f, 82)
      [] pc = 82 -> IQuery("psu", "MEAS:VOLT?", "rep", 83)
      [] pc = 83 -> IRet(f.rep)

\* a = <<value, channel>>.  Line 88 calls self._get_control_limit_current,
\* a method the class does not define.
HMP2030__set_current(f, pc) ==
    CASE pc = 88 -> IRaise("AttributeError")

RECURSIVE HMP2030__get_current(_, _)
HMP2030__get_current(f, pc) ==
    CASE pc = 96 -> IF f.a[1] # None
                    THEN CallSetChannel(f.a[1][1], 98)
                    ELSE HMP2030__get_current(f, 98)
      [] pc = 98 -> IQuery("psu", "MEAS:CURR?", "rep", 99)
      [] pc = 99 -> IRet(f.rep)

RECURSIVE HMP2030__set_on(_, _)
HMP2030__set_on(f, pc) ==
    CASE pc = 103 -> IF f.a[1] # None
                     THEN CallSetChannel(f.a[1][1], 105)
                     ELSE HMP2030__set_on(f, 105)
      [] pc = 105 -> IWrite("psu", "OUTP ON", 0, 106)
      [] pc = 106 -> IRet(None)

RECURSIVE HMP2030__set_off(_, _)
HMP2030__set_off(f, pc) ==
    CASE pc = 109 -> IF f.a[1] # None
                     THEN CallSetChannel(f.a[1][1], 111)
                     ELSE HMP2030__set_off(f, 111)
      [] pc = 111 -> IWrite("psu", "OUTP OFF", 0, 112)
      [] pc = 112 -> IRet(None)

\* (_set_all_off() that forgets channel 3)
HMP2030__set_all_off_TwoChannels(f, pc) ==
    CASE pc = 115 -> ICall("HMP2030._set_off", 109, <<Some(1)>>, "none", 116)
      [] pc = 116 -> ICall("HMP2030._set_off", 109, <<Some(2)>>, "none", 118)
      [] pc = 118 -> IRet(None)

HMP2030__set_all_off(f, pc) ==
    CASE pc = 115 -> ICall("HMP2030._set_off", 109, <<Some(1)>>, "none", 116)
      [] pc = 116 -> ICall("HMP2030._set_off", 109, <<Some(2)>>, "none", 117)
      [] pc = 117 -> ICall("HMP2030._set_off", 109, <<Some(3)>>, "none", 118)
      [] pc = 118 -> IRet(None)

HMP2030__reset(f, pc) ==
    CASE pc = 121 -> IWrite("psu", "*RST", 0, 122)
      [] pc = 122 -> IWrite("psu", "SYST:REM", 0, 123)
      [] pc = 123 -> IRet(None)

\* a = <<maxi, channel>>
RECURSIVE HMP2030__set_over_voltage(_, _)
HMP2030__set_over_voltage(f, pc) ==
    CASE pc = 135 -> IF f.a[2] # None
                     THEN CallSetChannel(f.a[2][1], 137)
                     ELSE HMP2030__set_over_voltage(f, 137)
      [] pc = 137 -> IWrite("psu", "VOLT:PROT", f.a[1], 138)
      [] pc = 138 -> IRet(None)

RECURSIVE HMP2030__set_over_current(_, _)
HMP2030__set_over_current(f, pc) ==
    CASE pc = 141 -> IF f.a[2] # None
                     THEN CallSetChannel(f.a[2][1], 143)
                     ELSE HMP2030__set_over_current(f, 143)
      [] pc = 143 -> IWrite("psu", "FUSE ON", 0, 144)
      [] pc = 144 -> IWrite("psu", "CURR", f.a[1], 145)
      [] pc = 145 -> IRet(None)

\* a = <<value, channel, ctrparam>>, channel None or Some(c)
RECURSIVE HMP2030_set_control_value(_, _)
HMP2030_set_control_value(f, pc) ==
    CASE pc = 176 -> IF f.a[2] # None
                     THEN CallSetChannel(f.a[2][1], 178)
                     ELSE HMP2030_set_control_value(f, 178)
      [] pc = 178 -> ICall("HMP2030.get_control_limit", 209,
                           <<f.a[2], f.a[3]>>, "x", 179)
      [] pc = 179 -> IF f.x[1][1] <= f.a[1] /\ f.a[1] <= f.x[1][2]
                     THEN IWrite("psu", f.a[3], f.a[1], 183)
                     ELSE ILog("Control value out of range", 183)
      [] pc = 183 -> IRet(None)

\* a = <<ctrparam>>
HMP2030_get_control_value(f, pc) ==
    CASE pc = 190 -> IQuery("psu", IF f.a[1] = "VOLT" THEN "VOLT?" ELSE "CURR?",
                            "rep", 191)
      [] pc = 191 -> IRet(f.rep)

(***************************************************************************)
(* The interpreter: the instruction a frame is about to run.               *)
(***************************************************************************)
Instr(f) ==
    CASE f.fn = "_command_wait"        -> _command_wait(f, f.pc)
      [] f.fn = "get_status"           -> get_status(f, f.pc)
      [] f.fn = "off"                  -> off(f, f.pc)
      [] f.fn = "get_power"            -> get_power(f, f.pc)
      [] f.fn = "get_frequency"        -> get_frequency(f, f.pc)
      [] f.fn = "cw_on"                -> cw_on(f, f.pc)
      [] f.fn = "set_cw_params"        -> set_cw_params(f, f.pc)
      [] f.fn = "list_on"              -> list_on(f, f.pc)
      [] f.fn = "set_list"             -> set_list(f, f.pc)
      [] f.fn = "reset_list_position"  -> reset_list_position(f, f.pc)
      [] f.fn = "sweep_on"             -> sweep_on(f, f.pc)
      [] f.fn = "set_sweep"            -> set_sweep(f, f.pc)
      [] f.fn = "reset_sweep_position" -> reset_sweep_position(f, f.pc)
      [] f.fn = "set_ext_trigger"      -> set_ext_trigger(f, f.pc)
      [] f.fn = "get_ext_trigger"      -> get_ext_trigger(f, f.pc)
      [] f.fn = "open_communication"   -> open_communication(f, f.pc)
      [] f.fn = "close_communication"  -> close_communication(f, f.pc)
      [] f.fn = "set_timeout"          -> set_timeout(f, f.pc)
      [] f.fn = "set_address"          -> set_address(f, f.pc)
      [] f.fn = "get_address"          -> get_address(f, f.pc)
      [] f.fn = "get_timeout"          -> get_timeout(f, f.pc)
      [] f.fn = "DAQ_Move_RSMWsource.ini_stage" ->
            DAQ_Move_RSMWsource_ini_stage(f, f.pc)
      [] f.fn = "DAQ_Move_RSMWsource.move_rel" ->
            DAQ_Move_RSMWsource_move_rel(f, f.pc)
      [] f.fn = "DAQ_Move_MultiRSMWsource.ini_stage" ->
            DAQ_Move_MultiRSMWsource_ini_stage(f, f.pc)
      [] f.fn = "DAQ_Move_MultiRSMWsource.move_rel" ->
            DAQ_Move_MultiRSMWsource_move_rel(f, f.pc)
      [] f.fn = "DAQ_Move_MultiRSMWsource.stop_motion" ->
            DAQ_Move_MultiRSMWsource_stop_motion(f, f.pc)
      [] f.fn = "DAQ_Move_MultiRSMWsource.commit_settings" ->
            DAQ_Move_MultiRSMWsource_commit_settings(f, f.pc)
      [] f.fn = "DAQ_Move_RSMWsource.commit_settings" ->
            DAQ_Move_RSMWsource_commit_settings(f, f.pc)
      [] f.fn = "DAQ_Move_RSMWsource.move_abs" ->
            DAQ_Move_RSMWsource_move_abs(f, f.pc)
      [] f.fn = "DAQ_Move_MultiRSMWsource.move_abs" ->
            DAQ_Move_MultiRSMWsource_move_abs(f, f.pc)
      [] f.fn = "DAQ_Move_MultiRSMWsource.close" ->
            DAQ_Move_MultiRSMWsource_close(f, f.pc)
      [] f.fn = "DAQ_Move_RSMWsource.close" ->
            DAQ_Move_RSMWsource_close(f, f.pc)
      [] f.fn = "DAQ_Move_RSMWsource.stop_motion" ->
            DAQ_Move_RSMWsource_stop_motion(f, f.pc)
      [] f.fn = "HMP2030.open_communication" ->
            HMP2030_open_communication(f, f.pc)
      [] f.fn = "HMP2030.close_communication" ->
            HMP2030_close_communication(f, f.pc)
      [] f.fn = "HMP2030._set_channel"  -> HMP2030__set_channel(f, f.pc)
      [] f.fn = "HMP2030._get_channel"  -> HMP2030__get_channel(f, f.pc)
      [] f.fn = "HMP2030.get_control_limit" ->
            HMP2030_get_control_limit(f, f.pc)
      [] f.fn = "HMP2030._set_voltage"  -> HMP2030__set_voltage(f, f.pc)
      [] f.fn = "HMP2030._get_voltage"  -> HMP2030__get_voltage(f, f.pc)
      [] f.fn = "HMP2030._set_current"  -> HMP2030__set_current(f, f.pc)
      [] f.fn = "HMP2030._get_current"  -> HMP2030__get_current(f, f.pc)
      [] f.fn = "HMP2030._set_on"       -> HMP2030__set_on(f, f.pc)
      [] f.fn = "HMP2030._set_off"      -> HMP2030__set_off(f, f.pc)
      [] f.fn = "HMP2030._set_all_off"  -> HMP2030__set_all_off(f, f.pc)
      [] f.fn = "HMP2030._reset"        -> HMP2030__reset(f, f.pc)
      [] f.fn = "HMP2030._set_over_voltage" ->
            HMP2030__set_over_voltage(f, f.pc)
      [] f.fn = "HMP2030._set_over_current" ->
            HMP2030__set_over_current(f, f.pc)
      [] f.fn = "HMP2030.set_control_value" ->
            HMP2030_set_control_value(f, f.pc)
      [] f.fn = "HMP2030.get_control_value" ->
            HMP2030_get_control_value(f, f.pc)

Top == stack[Len(stack)]
Running == stack # <<>>
Idle == stack = <<>>
\* the instruction of the innermost frame ("idle" when nothing runs)
Cur == IF Running THEN Instr(Top) ELSE [k |-> "idle"]
SetTop(f) == [stack EXCEPT ![Len(stack)] = f]

\* A transport call as the trace keeps it: a write with its argument, a
\* query with its reply.
W(head, arg) == [k |-> "w", c |-> head, v |-> arg]
Q(head, rep) == [k |-> "q", c |-> head, v |-> rep]

\* The commands written, in order, without the sync markers.
Commands(tr) ==
    LET w == SelectSeq(tr, LAMBDA e : e.k = "w" /\ e.c # "*WAI")
    IN  [k \in 1..Len(w) |-> w[k].c]

\* How many times head was written.
Count(tr, head) == Cardinality({k \in 1..Len(tr) : tr[k].k = "w" /\ tr[k].c = head})

\* No sequence of interest has just completed.
NoHist == [seq |-> "", mode |-> "", running |-> FALSE]

\* The sequences of completed calls that the properties speak of, with the
\* mode and output of the instrument when the sequence began: h is the
\* sequence before operation o completed with the transport calls tr.
Hist(h, o, tr) ==
    LET from(q) == [seq |-> q, mode |-> o.pre.mode, running |-> o.pre.running]
    IN  CASE o.name = "off" ->
                [NoHist EXCEPT !.seq = IF Count(tr, "OUTP:STAT OFF") = 0
                                       THEN "off:0" ELSE "off:1"]
          [] o.name = "set_cw_params" -> from("set_cw_params")
          [] o.name = "cw_on" /\ h.seq = "set_cw_params" ->
                [h EXCEPT !.seq = "set_cw_params;cw_on"]
          [] o.name = "DAQ_Move_RSMWsource.move_abs" -> from("move_abs")
          [] o.name = "DAQ_Move_MultiRSMWsource.close" /\ ~o.a[1] ->
                [NoHist EXCEPT !.seq = "slave_close"]
          [] o.name \in {"list_on", "sweep_on"} ->
                [NoHist EXCEPT !.seq = o.name]
          [] OTHER -> NoHist

(***************************************************************************)
(* Steps of the running operation.                                         *)
(***************************************************************************)
\* Replies other than 1 that the completion queries of the running
\* operation have had so far.
Polls ==
    Cardinality({k \in 1..Len(trace) :
                    trace[k].c = "*OPC?" /\ OpcPending(trace[k].v)})

\* What the instrument may answer to a query.
Replies(i) ==
    IF i.head = "*OPC?"
    THEN {1} \cup (IF Polls < MaxPolls THEN {0} ELSE {})
    ELSE IF i.dev = "mw" THEN {InstReply(inst, i.head)}
    ELSE {PsuReply(psu, i.head)}

\* The frame after a query: the reply parsed into the local dst.
Store(f, dst, rep, next) ==
    CASE dst = "run"  -> [f EXCEPT !.run = ParseRunning(rep), !.pc = next]
      [] dst = "mode" -> [f EXCEPT !.mode = ParseMode(rep), !.pc = next]
      [] dst = "x"    -> [f EXCEPT !.x = Append(f.x, rep), !.pc = next]
      [] dst = "rep"  -> [f EXCEPT !.rep = rep, !.pc = next]
      [] OTHER        -> [f EXCEPT !.pc = next]

\* The caller's frame after the callee returned val.
Bind(f, bind, val) ==
    CASE bind = "status" -> [f EXCEPT !.mode = val[1], !.run = val[2]]
      [] bind = "x"      -> [f EXCEPT !.x = Append(f.x, val)]
      [] OTHER           -> f

\* self._connection.write(...) / self._inst.write(...)
DoWrite ==
    /\ Cur.k = "write"
    /\ \E arg \in Cur.alts :
        /\ trace' = Append(trace, W(Cur.head, arg))
        /\ inst' = IF Cur.dev = "mw" THEN InstWrite(inst, Cur.head, arg)
                   ELSE inst
        /\ psu' = IF Cur.dev = "psu" THEN PsuWrite(psu, Cur.head, arg)
                  ELSE psu
    /\ stack' = SetTop([Top EXCEPT !.pc = Cur.next])
    /\ UNCHANGED <<mw, hmp, log, op, result, hist, other>>

\* self._connection.query(...) / self._inst.query(...)
DoQuery ==
    /\ Cur.k = "query"
    /\ \E rep \in Replies(Cur) :
        /\ trace' = Append(trace, Q(Cur.head, rep))
        /\ stack' = SetTop(Store(Top, Cur.dst, rep, Cur.next))
        /\ mw' = IF Cur.dst = "model"
                 THEN [mw EXCEPT !.model = ParseModel(rep)] ELSE mw
    /\ UNCHANGED <<inst, hmp, psu, log, op, result, hist, other>>

\* a method calls another one
DoCall ==
    /\ Cur.k = "call"
    /\ \E a \in Cur.alts :
        stack' = Append(SetTop([Top EXCEPT !.pc = Cur.next]),
                        Frame(Cur.fn, Cur.pc, a, Cur.bind, Len(trace)))
    /\ UNCHANGED <<mw, inst, hmp, psu, trace, log, op, result, hist, other>>

\* return, to the calling method or to the caller of the operation
DoReturn ==
    /\ Cur.k = "ret"
    /\ IF Len(stack) = 1
       THEN /\ stack' = <<>>
            /\ result' = <<"ok", Cur.val>>
            /\ hist' = Hist(hist, op, trace)
       ELSE /\ stack' = [SubSeq(stack, 1, Len(stack) - 1) EXCEPT
                            ![Len(stack) - 1] = Bind(@, Top.bind, Cur.val)]
            /\ UNCHANGED <<result, hist>>
    /\ UNCHANGED <<mw, inst, hmp, psu, trace, log, op, other>>

\* print(...) / logger.error(...)
DoLog ==
    /\ Cur.k = "log"
    /\ log' = Append(log, Cur.msg)
    /\ stack' = SetTop([Top EXCEPT !.pc = Cur.next])
    /\ UNCHANGED <<mw, inst, hmp, psu, trace, op, result, hist, other>>

\* The line of the except clause that catches what is raised under a frame
\* of fn; 0 when fn has none.
HandlerPc(fn) ==
    CASE fn = "open_communication"         -> 96
      [] fn = "HMP2030.open_communication" -> 40
      [] OTHER                             -> 0

\* The stack once an exception raised by the innermost frame has unwound.
Unwind(st) ==
    LET J == {j \in 1..Len(st) : HandlerPc(st[j].fn) # 0}
        j == CHOOSE m \in J : \A n \in J : n <= m
    IN  IF J = {} THEN <<>>
        ELSE [SubSeq(st, 1, j) EXCEPT ![j].pc = HandlerPc(st[j].fn)]

Raise(exc) ==
    /\ stack' = Unwind(stack)
    /\ result' = IF Unwind(stack) = <<>> THEN <<"raise", exc>> ELSE result
    /\ hist' = IF Unwind(stack) = <<>> THEN NoHist ELSE hist

\* raise
DoRaise ==
    /\ Cur.k = "raise"
    /\ Raise(Cur.exc)
    /\ UNCHANGED <<mw, inst, hmp, psu, trace, log, op, other>>

\* self._inst.write(...) of the power supply raises a transport error: the
\* command does not reach the instrument.
WriteFails ==
    /\ Cur.k = "write" /\ Cur.dev = "psu"
    /\ \E arg \in Cur.alts :
        trace' = Append(trace, [k |-> "wx", c |-> Cur.head, v |-> arg])
    /\ Raise("VisaIOError")
    /\ UNCHANGED <<mw, inst, hmp, psu, log, op, other>>

\* self._connection.write(...) or self._connection.query(...) of the signal
\* source raises a transport error: the command does not reach the
\* instrument and no reply comes back.
MwTransportFails ==
    /\ Cur.k \in {"write", "query"} /\ Cur.dev = "mw"
    /\ trace' = Append(trace, [k |-> IF Cur.k = "write" THEN "wx" ELSE "qx",
                               c |-> Cur.head, v |-> 0])
    /\ Raise("VisaIOError")
    /\ UNCHANGED <<mw, inst, hmp, psu, log, op, other>>

\* A step that is neither a write nor a query: it opens or closes the
\* transport, assigns a field of the driver object or constructs a new
\* driver object (MWsource.__init__).  Opening may fail.
SysOutcomes(what) ==
    IF what \in {"rm.open_resource", "hmp.rm.open_resource"}
    THEN {"ok", "VisaIOError"} ELSE {"ok"}

DoSys ==
    /\ Cur.k = "sys"
    /\ \E out \in SysOutcomes(Cur.what) :
        IF out = "ok"
        THEN /\ mw' = CASE Cur.what = "rm.open_resource" ->
                              [mw EXCEPT !.conn = "open"]
                        [] Cur.what = "rm.close" ->
                              [mw EXCEPT !.conn = "closed"]
                        [] Cur.what = "self._timeout" ->
                              [mw EXCEPT !.timeout = Top.a[1]]
                        [] Cur.what = "self._address" ->
                              [mw EXCEPT !.address = Top.a[1]]
                        [] Cur.what = "MWsource" ->
                              [conn |-> "none", timeout |-> DefaultTimeoutMs,
                               model |-> "", address |-> ""]
                        [] OTHER -> mw
             /\ hmp' = CASE Cur.what = "hmp.rm.open_resource" ->
                              [hmp EXCEPT !.conn = "open"]
                         [] Cur.what = "self._inst.close" ->
                              [hmp EXCEPT !.conn = "closed"]
                         [] OTHER -> hmp
             /\ stack' = SetTop([Top EXCEPT !.pc = Cur.next])
             /\ UNCHANGED <<result, hist>>
        ELSE /\ Raise(out)
             /\ UNCHANGED <<mw, hmp>>
    /\ UNCHANGED <<inst, psu, trace, log, op, other>>

(***************************************************************************)
(* Calls of the operations.                                                *)
(***************************************************************************)
\* What the instruments are like when an operation is called.
Pre == [running |-> inst.running, mode |-> inst.mode,
        sel |-> psu.sel, out |-> psu.out, model |-> mw.model,
        conn |-> mw.conn]

\* The caller calls method fn, whose first statement is at line pc; op
\* remembers the call, the calls completed before it and the instruments
\* at the call.
Invoke(fn, pc, a) ==
    /\ Idle
    /\ stack' = <<Frame(fn, pc, a, "none", 0)>>
    /\ trace' = <<>>
    /\ log' = <<>>
    /\ result' = <<>>
    /\ op' = [name |-> fn, a |-> a, prev |-> hist, pre |-> Pre]
    /\ UNCHANGED <<mw, inst, hmp, psu, hist, other>>

\* The second caller before its first call.
NoOther ==
    [stack |-> <<>>, log |-> <<>>,
     op |-> [name |-> "", a |-> <<>>, prev |-> NoHist,
             pre |-> [running |-> FALSE, mode |-> "CW", sel |-> 1,
                      out |-> [c \in Channels |-> FALSE],
                      model |-> "", conn |-> "none"]],
     result |-> <<>>, hist |-> NoHist, switches |-> 0]

MwOpen == mw.conn = "open"
HmpOpen == hmp.conn = "open"

\* Arguments the callers pass: 1.5000004 GHz, -10.004 dBm.
FreqArgs == {None, Some(1500000400)}
PowArgs == {None, Some(-10004)}
ListArgs ==
    {<<None, None>>,
     <<Some(<<1200000000, 1300000000>>), Some(<<"seq", <<-5000, -7000>>>>)>>,
     <<Some(<<1200000000, 1300000000, 1400000000>>),
       Some(<<"seq", <<-5000, -7000>>>>)>>}
SweepArgs ==
    {<<None, None, None, None>>,
     <<Some(1000000000), Some(2000000000), Some(10000000), None>>}
EdgeArgs == {"rising", "falling", "both"}
TimeoutArgs == {100}

\* The address of the instrument.
Address == "TCPIP::192.168.0.2::INSTR"

OpenMw ==
    mw.conn # "open" /\ Invoke("open_communication", 85, <<Some(Address)>>)
CloseMw ==
    MwOpen /\ Invoke("close_communication", 104, <<>>)
SetTimeout ==
    \E t \in TimeoutArgs : Invoke("set_timeout", 72, <<t>>)
Off == MwOpen /\ Invoke("off", 127, <<>>)
GetStatus == MwOpen /\ Invoke("get_status", 144, <<>>)
GetPower == MwOpen /\ Invoke("get_power", 163, <<>>)
GetFrequency == MwOpen /\ Invoke("get_frequency", 190, <<>>)
CwOn == MwOpen /\ Invoke("cw_on", 208, <<>>)
SetCwParams ==
    /\ MwOpen
    /\ \E fr \in FreqArgs, pw \in PowArgs :
        Invoke("set_cw_params", 239, <<fr, pw>>)
ListOn == MwOpen /\ Invoke("list_on", 265, <<>>)
SetList ==
    MwOpen /\ \E a \in ListArgs : Invoke("set_list", 297, a)
ResetListPosition == MwOpen /\ Invoke("reset_list_position", 334, <<>>)
SweepOn == MwOpen /\ Invoke("sweep_on", 341, <<>>)
SetSweep ==
    MwOpen /\ \E a \in SweepArgs : Invoke("set_sweep", 379, a)
ResetSweepPosition == MwOpen /\ Invoke("reset_sweep_position", 409, <<>>)
SetExtTrigger ==
    MwOpen /\ \E e \in EdgeArgs : Invoke("set_ext_trigger", 423, <<e>>)
GetExtTrigger == MwOpen /\ Invoke("get_ext_trigger", 446, <<>>)
MoveAbs ==
    /\ MwOpen
    /\ \E fr \in FreqArgs \ {None} :
        Invoke("DAQ_Move_RSMWsource.move_abs", 128, <<fr[1]>>)
PluginClose == MwOpen /\ Invoke("DAQ_Move_RSMWsource.close", 58, <<>>)
StopMotion == MwOpen /\ Invoke("DAQ_Move_RSMWsource.stop_motion", 161, <<>>)

Step == DoWrite \/ DoQuery \/ DoCall \/ DoReturn \/ DoLog \/ DoRaise \/ DoSys

Init ==
    /\ mw = [conn |-> "none", timeout |-> DefaultTimeoutMs, model |-> "",
             address |-> ""]
    /\ inst = InstReset
    /\ hmp = [conn |-> "none"]
    /\ psu = PsuReset
    /\ stack = <<>>
    /\ trace = <<>>
    /\ log = <<>>
    /\ op = [name |-> "", a |-> <<>>, prev |-> NoHist, pre |-> Pre]
    /\ result = <<>>
    /\ hist = NoHist
    /\ other = NoOther

\* One caller of the microwave source.
Next ==
    \/ OpenMw \/ CloseMw
    \/ Off \/ GetStatus \/ GetPower \/ GetFrequency
    \/ CwOn \/ SetCwParams \/ ListOn \/ SetList \/ ResetListPosition
    \/ SweepOn \/ SetSweep \/ ResetSweepPosition
    \/ SetExtTrigger \/ GetExtTrigger
    \/ MoveAbs \/ PluginClose \/ StopMotion
    \/ Step

Spec == Init /\ [][Next]_vars

(***************************************************************************)
(* The session timeout and the completion protocol.                        *)
(***************************************************************************)
NextTimeout ==
    \/ OpenMw \/ CloseMw \/ SetTimeout \/ Off \/ CwOn \/ SweepOn
    \/ DoWrite \/ DoQuery \/ DoCall \/ DoReturn \/ DoSys

SpecTimeout == Init /\ [][NextTimeout]_vars

(***************************************************************************)
(* One caller who switches the output on and off in the three modes and    *)
(* reads the status.                                                       *)
(***************************************************************************)
NextOn ==
    \/ OpenMw \/ Off \/ GetStatus \/ CwOn \/ ListOn \/ SweepOn
    \/ DoWrite \/ DoQuery \/ DoCall \/ DoReturn \/ DoSys

SpecOn == Init /\ [][NextOn]_vars

(***************************************************************************)
(* One caller of the operations that read the status, and an operator at   *)
(* the front panel who changes the mode and the output between two calls.  *)
(***************************************************************************)
\* Between two calls the mode and the output state are changed at the
\* instrument; hist keeps what they were.
OutOfBand ==
    /\ Idle /\ MwOpen
    /\ \E m \in {"CW", "LIST", "SWE"}, r \in BOOLEAN :
        /\ <<m, r>> # <<inst.mode, inst.running>>
        /\ inst' = [inst EXCEPT !.mode = m, !.running = r]
    /\ hist' = [seq |-> "out_of_band", mode |-> inst.mode,
                running |-> inst.running]
    /\ UNCHANGED <<mw, hmp, psu, stack, trace, log, op, result, other>>

\* The setters, each with one set of arguments.
SetCwParamsBoth ==
    MwOpen /\ Invoke("set_cw_params", 239,
                     <<Some(1500000400), Some(-10004)>>)
SetListBoth ==
    MwOpen /\ Invoke("set_list", 297,
                     <<Some(<<1200000000, 1300000000>>),
                       Some(<<"seq", <<-5000, -7000>>>>)>>)
SetSweepNone ==
    MwOpen /\ Invoke("set_sweep", 379, <<None, None, None, None>>)
SetExtTriggerRising ==
    MwOpen /\ Invoke("set_ext_trigger", 423, <<"rising">>)

NextOutOfBand ==
    \/ OpenMw \/ OutOfBand
    \/ Off \/ CwOn \/ ListOn \/ SweepOn \/ SetCwParamsBoth \/ SetListBoth
    \/ SetSweepNone \/ SetExtTriggerRising \/ GetPower \/ GetFrequency
    \/ DoWrite \/ DoQuery \/ DoCall \/ DoReturn \/ DoRaise \/ DoSys

SpecOutOfBand == Init /\ [][NextOutOfBand]_vars

(***************************************************************************)
(* One caller who starts a list or a sweep and resets its position.        *)
(***************************************************************************)
NextReset ==
    \/ OpenMw \/ ListOn \/ SweepOn \/ Off
    \/ ResetListPosition \/ ResetSweepPosition
    \/ DoWrite \/ DoQuery \/ DoCall \/ DoReturn \/ DoSys

SpecReset == Init /\ [][NextReset]_vars

(***************************************************************************)
(* One caller who sets a list with both arguments, one of them or none.    *)
(***************************************************************************)
ListOptionalArgs ==
    {<<fr, pw>> : fr \in {None, Some(<<1200000000, 1300000000>>)},
                  pw \in {None, Some(<<"seq", <<-5000, -7000>>>>),
                          Some(<<"scalar", -5000>>)}}

SetListOptional ==
    MwOpen /\ \E a \in ListOptionalArgs : Invoke("set_list", 297, a)

NextListOptional ==
    \/ OpenMw \/ SetListOptional \/ ListOn \/ CwOn
    \/ DoWrite \/ DoQuery \/ DoCall \/ DoReturn \/ DoRaise \/ DoSys

SpecListOptional == Init /\ [][NextListOptional]_vars

(***************************************************************************)
(* One caller of the operations of the signal source, with an instrument   *)
(* that may go on answering the completion query with 0 for any number of  *)
(* polls.  Past MaxPolls the pending replies are no longer recorded in the *)
(* trace.  The transport returns from every call and the instrument does   *)
(* answer 1 at some poll: the steps of the running operation, a pending    *)
(* reply aside, are weakly fair.                                           *)
(***************************************************************************)
\* query("*OPC?") answered 0 once more.
DoQueryStillPending ==
    /\ Cur.k = "query" /\ Cur.head = "*OPC?"
    /\ Polls >= MaxPolls
    /\ stack' = SetTop(Store(Top, Cur.dst, 0, Cur.next))
    /\ UNCHANGED <<mw, inst, hmp, psu, trace, log, op, result, hist, other>>

\* A query that is answered, the completion query with 1.
QueryAnswered ==
    /\ DoQuery
    /\ Last(trace').c = "*OPC?" => Last(trace').v = 1

SetSweepFull ==
    MwOpen /\ Invoke("set_sweep", 379,
                     <<Some(1000000000), Some(2000000000), Some(10000000),
                       None>>)

NextLive ==
    \/ OpenMw \/ Off \/ GetStatus \/ GetPower \/ GetFrequency
    \/ CwOn \/ ListOn \/ SweepOn
    \/ SetCwParamsBoth \/ SetListBoth \/ SetSweepFull \/ SetExtTriggerRising
    \/ ResetListPosition \/ ResetSweepPosition \/ GetExtTrigger
    \/ DoWrite \/ DoQuery \/ DoQueryStillPending
    \/ DoCall \/ DoReturn \/ DoRaise \/ DoSys

Progress ==
    DoWrite \/ QueryAnswered \/ DoCall \/ DoReturn \/ DoRaise \/ DoSys

SpecLive == Init /\ [][NextLive]_vars /\ WF_vars(Progress)

(***************************************************************************)
(* One caller who switches the output on and sets the trigger edge, also   *)
(* to an edge that does not exist.                                         *)
(***************************************************************************)
NextTrigger ==
    \/ OpenMw \/ CwOn \/ SweepOn \/ SetExtTrigger \/ GetExtTrigger
    \/ DoWrite \/ DoQuery \/ DoCall \/ DoReturn \/ DoLog \/ DoSys

SpecTrigger == Init /\ [][NextTrigger]_vars

(***************************************************************************)
(* One caller who opens and closes the session of the signal source, on a  *)
(* transport that may fail at any call.                                    *)
(***************************************************************************)
NextOpen ==
    \/ OpenMw \/ CloseMw \/ GetStatus \/ CwOn
    \/ DoWrite \/ DoQuery \/ MwTransportFails
    \/ DoCall \/ DoReturn \/ DoSys

SpecOpen == Init /\ [][NextOpen]_vars

(***************************************************************************)
(* The single-axis plugin: the user moves the actuator, which switches the *)
(* CW output on, and changes the settings.                                 *)
(***************************************************************************)
SettingArgs ==
    {<<"address", Address>>, <<"power", -10004>>,
     <<"power", -20000>>, <<"timeout", 5>>, <<"epsilon", 1>>}

CommitSettings ==
    /\ MwOpen
    /\ \E a \in SettingArgs :
        Invoke("DAQ_Move_RSMWsource.commit_settings", 69, a)

\* The plugin is initialized with the address setting, '' by default.
IniStage ==
    /\ mw.conn # "open"
    /\ \E ad \in {"", Address} :
        Invoke("DAQ_Move_RSMWsource.ini_stage", 95, <<ad>>)

\* A relative move by 0.4 kHz from 1.5 GHz, or by 1.5000004 GHz from 0.
MoveRel ==
    /\ MwOpen
    /\ \E a \in {<<400, 1500000000>>, <<1500000400, 0>>} :
        Invoke("DAQ_Move_RSMWsource.move_rel", 150, a)

NextSettings ==
    \/ IniStage \/ MoveAbs \/ MoveRel \/ StopMotion \/ CommitSettings
    \/ GetStatus
    \/ DoWrite \/ DoQuery \/ DoCall \/ DoReturn \/ DoSys

SpecSettings == Init /\ [][NextSettings]_vars

(***************************************************************************)
(* Two callers of one session: the Frequency and the Power axis of the     *)
(* multi-axis plugin, each in a thread of its own, share the MWsource of   *)
(* the master.  Each moves once.  The threads are switched just before a   *)
(* transport call or between calls, at most MaxSwitches times.             *)
(***************************************************************************)
MaxSwitches == 2

\* The master has opened the session and both axes are initialised.
InitShared ==
    /\ mw = [conn |-> "open", timeout |-> DefaultTimeoutMs,
             model |-> "SMB100A", address |-> ""]
    /\ inst = InstReset
    /\ hmp = [conn |-> "none"]
    /\ psu = PsuReset
    /\ stack = <<>>
    /\ trace = <<>>
    /\ log = <<>>
    /\ op = [name |-> "", a |-> <<>>, prev |-> NoHist, pre |-> Pre]
    /\ result = <<>>
    /\ hist = NoHist
    /\ other = NoOther

\* A call on the shared session: the trace goes on.
InvokeShared(fn, pc, a) ==
    /\ Idle /\ op.name = ""
    /\ stack' = <<Frame(fn, pc, a, "none", Len(trace))>>
    /\ op' = [name |-> fn, a |-> a, prev |-> hist, pre |-> Pre]
    /\ UNCHANGED <<mw, inst, hmp, psu, trace, log, result, hist, other>>

MoveAbsFrequency ==
    /\ IF other.op.name = "" THEN TRUE ELSE other.op.a[1] # "Frequency"
    /\ InvokeShared("DAQ_Move_MultiRSMWsource.move_abs", 131,
                    <<"Frequency", 1500000400>>)
MoveAbsPower ==
    /\ IF other.op.name = "" THEN TRUE ELSE other.op.a[1] # "Power"
    /\ InvokeShared("DAQ_Move_MultiRSMWsource.move_abs", 131,
                    <<"Power", -10004>>)

\* The running thread is suspended and the other one runs.
Switch ==
    /\ Idle \/ Cur.k \in {"write", "query"}
    /\ other.switches < MaxSwitches
    /\ other' = [stack |-> stack, log |-> log, op |-> op,
                 result |-> result, hist |-> hist,
                 switches |-> other.switches + 1]
    /\ stack' = other.stack
    /\ log' = other.log
    /\ op' = other.op
    /\ result' = other.result
    /\ hist' = other.hist
    /\ UNCHANGED <<mw, inst, hmp, psu, trace>>

NextShared ==
    \/ MoveAbsFrequency \/ MoveAbsPower \/ Switch
    \/ DoWrite \/ DoQuery \/ DoCall \/ DoReturn

SpecShared == InitShared /\ [][NextShared]_vars

(***************************************************************************)
(* The two axes of the multi-axis plugin, one call at a time: each axis    *)
(* moves and is closed, the master (is_master) or the slave.               *)
(***************************************************************************)
MultiMoveAbs ==
    /\ MwOpen
    /\ \E a \in {<<"Frequency", 1500000400>>, <<"Power", -10004>>} :
        Invoke("DAQ_Move_MultiRSMWsource.move_abs", 131, a)

MultiClose ==
    /\ Idle
    /\ \E master \in BOOLEAN :
        Invoke("DAQ_Move_MultiRSMWsource.close", 68, <<master>>)

\* The master axis is initialized when no session is open, a slave axis
\* with the open session of the master.
MultiIniStage ==
    /\ Idle
    /\ \E master \in BOOLEAN :
        /\ IF master THEN mw.conn # "open" ELSE MwOpen
        /\ Invoke("DAQ_Move_MultiRSMWsource.ini_stage", 104,
                  <<master, Address>>)

MultiMoveRel ==
    /\ MwOpen
    /\ \E a \in {<<"Frequency", 400, 1500000000>>, <<"Power", -4, -10000>>} :
        Invoke("DAQ_Move_MultiRSMWsource.move_rel", 152, a)

MultiStopMotion ==
    MwOpen /\ Invoke("DAQ_Move_MultiRSMWsource.stop_motion", 169, <<>>)

MultiCommitSettings ==
    /\ MwOpen
    /\ \E a \in {<<"address", Address>>, <<"timeout", 5>>, <<"epsilon", 1>>} :
        Invoke("DAQ_Move_MultiRSMWsource.commit_settings", 80, a)

NextMultiClose ==
    \/ MultiIniStage \/ MultiMoveAbs \/ MultiMoveRel \/ MultiStopMotion
    \/ MultiCommitSettings \/ MultiClose
    \/ DoWrite \/ DoQuery \/ DoCall \/ DoReturn \/ DoSys

SpecMultiClose == InitShared /\ [][NextMultiClose]_vars

(***************************************************************************)
(* One caller who sets CW parameters, some of them outside the range of    *)
(* the source: 1 kHz is below its lowest frequency, 35 dBm above its       *)
(* highest level.                                                          *)
(***************************************************************************)
CwFreqArgs == {None, Some(1500000400), Some(1000), Some(1000001500)}
CwPowArgs == {None, Some(-10004), Some(35000), Some(-10005)}

SetCwParamsAny ==
    /\ MwOpen
    /\ \E fr \in CwFreqArgs, pw \in CwPowArgs :
        Invoke("set_cw_params", 239, <<fr, pw>>)

NextCw ==
    \/ OpenMw \/ SetCwParamsAny \/ CwOn \/ ListOn
    \/ DoWrite \/ DoQuery \/ DoCall \/ DoReturn \/ DoSys

SpecCw == Init /\ [][NextCw]_vars

(***************************************************************************)
(* One caller who configures sweeps: with nothing, with start, stop and    *)
(* step (1 GHz, 2 GHz, 10 MHz; 1.2 GHz, 1.3 GHz, 500.4 kHz and a power),   *)
(* and with only some of the three.                                        *)
(***************************************************************************)
SweepTableArgs ==
    {<<None, None, None, None>>,
     <<Some(1000000000), Some(2000000000), Some(10000000), None>>,
     <<Some(1200000000), Some(1300000000), Some(500400), Some(-10004)>>,
     <<Some(1000001500), Some(2000000000), Some(1000), Some(-10005)>>,
     <<Some(1000000000), None, None, None>>,
     <<Some(1000000000), Some(2000000000), None, Some(-10004)>>}

SetSweepAny ==
    MwOpen /\ \E a \in SweepTableArgs : Invoke("set_sweep", 379, a)

NextSweep ==
    \/ OpenMw \/ SetSweepAny \/ SweepOn \/ CwOn
    \/ DoWrite \/ DoQuery \/ DoCall \/ DoReturn \/ DoRaise \/ DoSys

SpecSweep == Init /\ [][NextSweep]_vars

(***************************************************************************)
(* One caller who writes lists and reads the power back: equal powers,     *)
(* different powers, 1 dBm first, 0 dBm throughout.                        *)
(***************************************************************************)
ListPowArgs ==
    {<<-5000, -5000>>, <<-5000, -7000>>, <<1000, 2000>>, <<0, 0>>}

SetListAny ==
    /\ MwOpen
    /\ \E p \in ListPowArgs :
        Invoke("set_list", 297,
               <<Some(<<1200000000, 1300000000>>), Some(<<"seq", p>>)>>)

NextList ==
    \/ OpenMw \/ SetListAny \/ ListOn \/ GetPower
    \/ DoWrite \/ DoQuery \/ DoCall \/ DoReturn \/ DoSys

SpecList == Init /\ [][NextList]_vars

(***************************************************************************)
(* One caller of the power supply.                                         *)
(***************************************************************************)
\* 12 V is inside [0, 32]; 33 V and -1 V are outside.
VoltArgs == {12, 33, -1}
\* 1 A is inside [0, 5]; 6 A is outside.
CurrArgs == {1, 6}
\* channel 4 does not exist
ChannelArgs == {None, Some(1), Some(2), Some(3), Some(4)}

OpenHmp ==
    hmp.conn # "open" /\ Invoke("HMP2030.open_communication", 33, <<>>)
CloseHmp ==
    HmpOpen /\ Invoke("HMP2030.close_communication", 47, <<>>)
SetVoltage ==
    /\ HmpOpen
    /\ \E v \in VoltArgs, c \in ChannelArgs :
        Invoke("HMP2030._set_voltage", 70, <<v, c>>)
GetVoltage ==
    HmpOpen /\ \E c \in ChannelArgs : Invoke("HMP2030._get_voltage", 80, <<c>>)
SetCurrent ==
    /\ HmpOpen
    /\ \E v \in CurrArgs, c \in ChannelArgs :
        Invoke("HMP2030._set_current", 88, <<v, c>>)
SetOn ==
    HmpOpen /\ \E c \in ChannelArgs : Invoke("HMP2030._set_on", 103, <<c>>)
SetOff ==
    HmpOpen /\ \E c \in ChannelArgs : Invoke("HMP2030._set_off", 109, <<c>>)
SetAllOff == HmpOpen /\ Invoke("HMP2030._set_all_off", 115, <<>>)
SetControlValue ==
    /\ HmpOpen
    /\ \E v \in VoltArgs, c \in ChannelArgs :
        Invoke("HMP2030.set_control_value", 176, <<v, c, "VOLT">>)

\* The supply is in whatever state it was left in: open_communication does
\* not reset it.
InitPSU ==
    /\ mw = [conn |-> "none", timeout |-> DefaultTimeoutMs, model |-> "",
             address |-> ""]
    /\ inst = InstReset
    /\ hmp = [conn |-> "none"]
    /\ \E s \in Channels, o \in [Channels -> BOOLEAN] :
        psu = [PsuReset EXCEPT !.sel = s, !.out = o]
    /\ stack = <<>>
    /\ trace = <<>>
    /\ log = <<>>
    /\ op = [name |-> "", a |-> <<>>, prev |-> NoHist, pre |-> Pre]
    /\ result = <<>>
    /\ hist = NoHist
    /\ other = NoOther

NextPSU ==
    \/ OpenHmp \/ CloseHmp
    \/ SetVoltage \/ GetVoltage \/ SetCurrent
    \/ SetOn \/ SetOff \/ SetAllOff \/ SetControlValue
    \/ DoWrite \/ DoQuery \/ DoCall \/ DoReturn \/ DoLog \/ DoRaise \/ DoSys

SpecPSU == InitPSU /\ [][NextPSU]_vars

(***************************************************************************)
(* One caller of the power supply who names the channel in every call.     *)
(***************************************************************************)
SelArgs == {Some(2), Some(3)}

OnChannelSetVoltage ==
    HmpOpen /\ \E c \in SelArgs : Invoke("HMP2030._set_voltage", 70, <<12, c>>)
OnChannelSetCurrent ==
    HmpOpen /\ \E c \in SelArgs : Invoke("HMP2030._set_current", 88, <<1, c>>)
OnChannelGetVoltage ==
    HmpOpen /\ \E c \in SelArgs : Invoke("HMP2030._get_voltage", 80, <<c>>)
OnChannelGetCurrent ==
    HmpOpen /\ \E c \in SelArgs : Invoke("HMP2030._get_current", 96, <<c>>)
OnChannelSetOn ==
    HmpOpen /\ \E c \in SelArgs : Invoke("HMP2030._set_on", 103, <<c>>)
OnChannelSetOff ==
    HmpOpen /\ \E c \in SelArgs : Invoke("HMP2030._set_off", 109, <<c>>)
OnChannelSetOverVoltage ==
    /\ HmpOpen
    /\ \E c \in SelArgs : Invoke("HMP2030._set_over_voltage", 135, <<20, c>>)
OnChannelSetOverCurrent ==
    /\ HmpOpen
    /\ \E c \in SelArgs : Invoke("HMP2030._set_over_current", 141, <<2, c>>)

NextPSUChannel ==
    \/ OpenHmp
    \/ OnChannelSetVoltage \/ OnChannelSetCurrent
    \/ OnChannelGetVoltage \/ OnChannelGetCurrent
    \/ OnChannelSetOn \/ OnChannelSetOff
    \/ OnChannelSetOverVoltage \/ OnChannelSetOverCurrent
    \/ DoWrite \/ DoQuery \/ DoCall \/ DoReturn \/ DoRaise \/ DoSys

SpecPSUChannel == InitPSU /\ [][NextPSUChannel]_vars

(***************************************************************************)
(* One caller of the power supply on a transport whose writes may fail.    *)
(***************************************************************************)
NextPSUFault ==
    \/ OpenHmp \/ CloseHmp \/ SetOn
    \/ DoWrite \/ WriteFails \/ DoCall \/ DoReturn \/ DoLog \/ DoSys

SpecPSUFault == InitPSU /\ [][NextPSUFault]_vars

(***************************************************************************)
(* Properties.                                                             *)
(***************************************************************************)
Done(name) == Idle /\ op.name = name /\ result # <<>> /\ result[1] = "ok"
InWait == Running /\ Top.fn = "_command_wait"
IsWrite(e, head) == e.k = "w" /\ e.c = head
IsOpc(e) == e.k = "q" /\ e.c = "*OPC?"

\* C1: while _command_wait(cmd) runs, the transport has seen, since the
\* call, write(cmd), then write("*WAI"), then completion queries only; every
\* reply but the last is different from 1; the loop polls again only while
\* no reply was 1, and the call returns only when the last reply is 1.
C1_CommandWaitProtocol ==
    InWait =>
        LET f == Top
            n == Len(trace) - f.t0
            e(k) == trace[f.t0 + k]
        IN  /\ n >= 0
            /\ n >= 1 => IsWrite(e(1), f.a[1]) /\ e(1).v = f.a[2]
            /\ n >= 2 => IsWrite(e(2), "*WAI")
            /\ \A k \in 3..n : IsOpc(e(k)) /\ (k < n => e(k).v # 1)
            /\ Cur.k = "write" => n < 2
            /\ Cur.k = "query" => n >= 2 /\ (n >= 3 => e(n).v # 1)
            /\ Cur.k = "ret" => n >= 3 /\ e(n).v = 1
            /\ Cur.k \in {"write", "query", "ret"}

\* a _command_wait call is about to return after more than one poll
C1_Witness ==
    InWait /\ Cur.k = "ret" /\ Len(trace) - Top.t0 >= 4

\* The sleeps of the running _command_wait so far, in ms: one between two
\* completion queries.
WaitedMs ==
    LET n == Len(trace) - Top.t0
    IN  IF n >= 4 THEN PollDelayMs * (n - 3) ELSE 0

\* C2: _command_wait stops polling at a deadline derived from the session
\* timeout: it issues no completion query once it has slept for longer than
\* the timeout.
C2_PollingStopsAtDeadline ==
    InWait => WaitedMs <= mw.timeout

\* C3: every command written is followed by the sync marker, and every sync
\* marker by a completion query, before the driver writes anything else.
C3_NoBareWrite ==
    \A k \in 1..(Len(trace) - 1) :
        /\ (trace[k].k = "w" /\ trace[k].c # "*WAI")
                => IsWrite(trace[k + 1], "*WAI")
        /\ IsWrite(trace[k], "*WAI") => IsOpc(trace[k + 1])

\* C4: once the session of the microwave source is closed, its output is off.
C4_ClosedMeansOff ==
    mw.conn = "closed" => ~inst.running

AllOff == \A c \in Channels : ~psu.out[c]

\* C5: when close_communication of the power supply releases the
\* transport, it has written select 1, OUTP OFF, select 2, OUTP OFF,
\* select 3, OUTP OFF and nothing else, and the three outputs are off; they
\* are off as long as the session is closed.
C5_CloseTurnsAllOff ==
    /\ (Running /\ Cur.k = "sys" /\ Cur.what = "self._inst.close") =>
            /\ trace = <<W("INST OUT", 1), W("OUTP OFF", 0),
                         W("INST OUT", 2), W("OUTP OFF", 0),
                         W("INST OUT", 3), W("OUTP OFF", 0)>>
            /\ AllOff
    /\ hmp.conn = "closed" => AllOff

\* close_communication has returned; when it was called the three outputs
\* were on and channel 2 was the selected one
C5_Witness ==
    /\ Done("HMP2030.close_communication")
    /\ hmp.conn = "closed"
    /\ op.pre.sel = 2
    /\ \A c \in Channels : op.pre.out[c]

ModeOrTrigger ==
    {":FREQ:MODE CW", ":FREQ:MODE LIST", ":FREQ:MODE SWEEP", ":TRIG1:SLOP"}

\* The running operation has learnt that the output is off, and has not
\* switched it on since: OUTP:STAT? answered 0, or OUTP:STAT OFF was written
\* and a later completion query answered 1.
ConfirmedOff ==
    \E k \in 1..Len(trace) :
        /\ \/ (trace[k].c = "OUTP:STAT?" /\ trace[k].v = 0)
           \/ /\ IsWrite(trace[k], "OUTP:STAT OFF")
              /\ \E j \in (k + 1)..Len(trace) : IsOpc(trace[j]) /\ trace[j].v = 1
        /\ \A j \in k..Len(trace) : ~IsWrite(trace[j], ":OUTP:STAT ON")

\* C6: when the driver is about to write a frequency-mode switch or a
\* trigger-polarity command, the output of the instrument is off and the
\* running operation has confirmed it.
C6_ModeSwitchOnlyWhenOff ==
    (Running /\ Cur.k = "write" /\ Cur.head \in ModeOrTrigger)
        => ~inst.running /\ ConfirmedOff

\* a trigger-polarity command is about to be written by an operation that
\* was called while the output was running in list mode
C6_Witness ==
    /\ Running /\ Cur.k = "write" /\ Cur.head = ":TRIG1:SLOP"
    /\ op.pre.running /\ op.pre.mode = "LIST"

\* C7: off() writes the output-disable command once if the status it read
\* says running and writes nothing otherwise; an off() that follows an off()
\* writes nothing.
C7_OffIdempotent ==
    Done("off") =>
        /\ op.pre.running => Commands(trace) = <<"OUTP:STAT OFF">>
        /\ ~op.pre.running => \A k \in 1..Len(trace) : trace[k].k = "q"
        /\ op.prev.seq \in {"off:0", "off:1"} =>
                \A k \in 1..Len(trace) : trace[k].k = "q"

\* the second of two off() in a row has returned; the first one had found
\* the output running and had written the output-disable command
C7_Witness ==
    Done("off") /\ op.prev.seq = "off:1" /\ Len(trace) = 2

\* C8: get_status() called after set_cw_params(...) then cw_on(), or after
\* the plugin's move_abs, returns ("cw", True).
C8_CwOnYieldsCwRunning ==
    (/\ Done("get_status")
     /\ op.prev.seq \in {"set_cw_params;cw_on", "move_abs"})
        => result[2] = <<"cw", TRUE>>

\* get_status() has returned after set_cw_params(frequency, power) and
\* cw_on(), and set_cw_params was called while the output was running in
\* sweep mode
C8_Witness ==
    /\ Done("get_status") /\ op.prev.seq = "set_cw_params;cw_on"
    /\ op.prev.mode = "SWE" /\ op.prev.running
    /\ inst.freq = 1500000000 /\ inst.pow = -1000

\* C9: the commands cw_on() writes are a function of the status it read.
C9_CwOnCommands ==
    Done("cw_on") =>
        LET run  == trace[1].v = 1
            mode == trace[2].v
        IN  /\ trace[1].c = "OUTP:STAT?" /\ trace[2].c = ":FREQ:MODE?"
            /\ Commands(trace) =
                CASE run /\ mode = "CW"   -> <<>>
                  [] ~run /\ mode = "CW"  -> <<":OUTP:STAT ON">>
                  [] ~run /\ mode # "CW"  ->
                        <<":FREQ:MODE CW", ":OUTP:STAT ON">>
                  [] run /\ mode # "CW"   ->
                        <<"OUTP:STAT OFF", ":FREQ:MODE CW", ":OUTP:STAT ON">>

\* cw_on() has returned; it had found the output running in sweep mode
C9_Witness ==
    Done("cw_on") /\ trace[1].v = 1 /\ trace[2].v = "SWE"

\* C10: setting a voltage outside [0, max] on an existing channel writes
\* nothing to the transport.
C10_OutOfRangeWritesNothing ==
    (/\ Idle /\ result # <<>>
     /\ op.name \in {"HMP2030._set_voltage", "HMP2030.set_control_value"}
     /\ op.a[2] # None /\ op.a[2][1] \in Channels
     /\ (op.a[1] < 0 \/ op.a[1] > voltage_max_1))
        => \A k \in 1..Len(trace) : trace[k].k # "w"

\* The operation that was called has ended, by a return or by an
\* exception.
Ended(name) == Idle /\ op.name = name /\ result # <<>>

\* The fixed current limit of channel c.
CurrentMax(c) ==
    CASE c = 1 -> current_max_1 [] c = 2 -> current_max_2
      [] c = 3 -> current_max_3

\* C11: _set_current(value, c) on an existing channel c: with value in
\* [0, max_current(c)] the call returns, CURR value is written exactly once
\* and it has set the current of channel c; with value outside the range
\* nothing is written.
C11_SetCurrentValidated ==
    (/\ Ended("HMP2030._set_current")
     /\ op.a[2] # None /\ op.a[2][1] \in Channels)
        => LET value == op.a[1]
               c     == op.a[2][1]
           IN  IF 0 <= value /\ value <= CurrentMax(c)
               THEN /\ result[1] = "ok"
                    /\ Count(trace, "CURR") = 1
                    /\ psu.sel = c /\ psu.curr[c] = value
               ELSE \A k \in 1..Len(trace) : trace[k].k # "w"

\* The two sequences given to set_list have different lengths.
Mismatch(a) ==
    /\ a[1] # None /\ a[2] # None
    /\ a[2][1][1] = "seq"
    /\ Len(a[1][1]) # Len(a[2][1][2])

\* C12: set_list with a frequency sequence and a power sequence of
\* different lengths ends with an error, has written nothing, and leaves the
\* output as it was: running if it was running.
C12_LengthMismatchSendsNothing ==
    (Ended("set_list") /\ Mismatch(op.a))
        => /\ result[1] = "raise"
           /\ \A k \in 1..Len(trace) : trace[k].k # "w"
           /\ inst.running = op.pre.running

\* The operations of the power supply that take a channel, and the channel
\* an operation was called with (None or Some(c)).
ChannelOps ==
    {"HMP2030._set_voltage", "HMP2030._set_current", "HMP2030._get_voltage",
     "HMP2030._get_current", "HMP2030._set_on", "HMP2030._set_off",
     "HMP2030._set_over_voltage", "HMP2030._set_over_current"}
ChannelOf(o) ==
    IF o.name \in {"HMP2030._get_voltage", "HMP2030._get_current",
                   "HMP2030._set_on", "HMP2030._set_off"}
    THEN o.a[1] ELSE o.a[2]

\* C13: an operation of the power supply called with channel c in {1,2,3}
\* writes the select-channel command for c first, before its own command
\* or query, and writes no other select-channel command.
C13_SelectBeforeCommand ==
    (/\ Idle /\ result # <<>> /\ op.name \in ChannelOps
     /\ ChannelOf(op) # None /\ ChannelOf(op)[1] \in Channels)
        => /\ Len(trace) >= 1
           /\ trace[1] = W("INST OUT", ChannelOf(op)[1])
           /\ \A k \in 2..Len(trace) : trace[k].c # "INST OUT"

\* The index of the last command written in tr, 0 if there is none.
LastWrite(tr) ==
    LET I == {k \in 1..Len(tr) : tr[k].k = "w"}
    IN  IF I = {} THEN 0 ELSE CHOOSE k \in I : \A j \in I : j <= k

\* C14: what set_cw_params returns is what the instrument holds when the
\* call returns: the mode, frequency and power were answered to queries
\* issued after the completion query that confirmed the last command of the
\* call, and they are the stored values, also when the instrument has
\* stored another value than the requested one.
C14_ReturnsStoredValues ==
    Done("set_cw_params") =>
        LET n == Len(trace)
            w == LastWrite(trace)
        IN  /\ result[2] = <<ParseMode(inst.mode), inst.freq, inst.pow>>
            /\ \E c \in (w + 1)..n, m \in (w + 1)..n,
                   i \in (w + 1)..n, j \in (w + 1)..n :
                /\ c < m /\ m < i /\ i < j
                /\ w > 0 => IsOpc(trace[c]) /\ trace[c].v = 1
                /\ trace[m].c = ":FREQ:MODE?"
                /\ ParseMode(trace[m].v) = result[2][1]
                /\ trace[i].c = ":FREQ?" /\ trace[i].v = result[2][2]
                /\ trace[j].c = ":POW?" /\ trace[j].v = result[2][3]

\* set_cw_params(1 kHz, 35 dBm) has returned 9 kHz and 30 dBm, the limits
\* the instrument has stored instead
C14_Witness ==
    /\ Done("set_cw_params")
    /\ op.a = <<Some(1000), Some(35000)>>
    /\ result[2] = <<"cw", InstFreqMin * 1000, InstPowMax>>

\* The commands written with their values, in order, without the sync
\* markers.
Writes(tr) == SelectSeq(tr, LAMBDA e : e.k = "w" /\ e.c # "*WAI")

SweepTable == {":FREQ:START", ":FREQ:STOP", ":SWE:STEP:LIN"}
AllOfTable(a) == a[1] # None /\ a[2] # None /\ a[3] # None
NoneOfTable(a) == a[1] = None /\ a[2] = None /\ a[3] = None

\* C15: set_sweep(start, stop, step) writes, one after the other and each
\* once, the step-mode command, the linear-spacing command, :FREQ:START
\* with start - step, :FREQ:STOP with stop and :SWE:STEP:LIN with step
\* (values in kHz, as the six decimals of a GHz carry them).
C15_SweepStartIsStartMinusStep ==
    (Ended("set_sweep") /\ AllOfTable(op.a)) =>
        LET w == Writes(trace)
            start == op.a[1][1]
            stop  == op.a[2][1]
            step  == op.a[3][1]
        IN  /\ \E k \in 1..(Len(w) - 4) :
                /\ w[k].c = ":SWE:MODE STEP"
                /\ w[k + 1].c = ":SWE:SPAC LIN"
                /\ w[k + 2].c = ":FREQ:START"
                /\ w[k + 2].v \in FormatGHz(start - step)
                /\ w[k + 3].c = ":FREQ:STOP"
                /\ w[k + 3].v \in FormatGHz(stop)
                /\ w[k + 4].c = ":SWE:STEP:LIN"
                /\ w[k + 4].v \in FormatGHz(step)
            /\ \A h \in SweepTable \cup {":SWE:MODE STEP", ":SWE:SPAC LIN"} :
                    Count(trace, h) = 1

\* set_sweep(1 GHz, 2 GHz, 10 MHz) has ended; its start command carried
\* 990 MHz, and the instrument holds 990 MHz, 2 GHz and 10 MHz
C15_Witness ==
    /\ Ended("set_sweep")
    /\ op.a = <<Some(1000000000), Some(2000000000), Some(10000000), None>>
    /\ \E k \in 1..Len(trace) :
            IsWrite(trace[k], ":FREQ:START") /\ trace[k].v = 990000
    /\ inst.sstart = 990000000 /\ inst.sstop = 2000000000
    /\ inst.sstep = 10000000

\* C16: set_sweep with some but not all of start, stop and step ends with
\* an error and has sent no command, so none of the three sweep-table
\* commands; in every call the three are written all or none.
C16_PartialSweepRejected ==
    /\ (Ended("set_sweep") /\ ~AllOfTable(op.a) /\ ~NoneOfTable(op.a)) =>
            /\ result[1] = "raise"
            /\ \A k \in 1..Len(trace) : trace[k].k # "w"
    /\ Ended("set_sweep") =>
            \/ \A h \in SweepTable : Count(trace, h) = 1
            \/ \A h \in SweepTable : Count(trace, h) = 0

\* C17: set_sweep returns, and the mode it returns is "sweep".
C17_SetSweepReturnsSweepMode ==
    Ended("set_sweep") => result[1] = "ok" /\ result[2][1] = "sweep"

AllSame(s) == \A k \in 1..Len(s) : s[k] = s[1]

\* C18: in list mode get_power returns a single value (line 173 was run)
\* exactly when all the powers of the list it read are equal, and the whole
\* list otherwise.
C18_ListPowerCollapse ==
    (Running /\ Top.fn = "get_power" /\ Top.mode = "list" /\ Cur.k = "ret")
        => (Top.pc = 173 <=> AllSame(Top.rep))

\* C19: an open that returns success, of the signal source or of the power
\* supply, has written the status-clear command and then the reset command.
C19_OpenClearsAndResets ==
    /\ (Done("open_communication") /\ result[2] = TRUE)
            => Commands(trace) = <<"*CLS", "*RST">>
    /\ (Done("HMP2030.open_communication") /\ result[2] = TRUE)
            => Commands(trace) = <<"*CLS", "*RST">>

\* A write of the running operation has failed.
Faulted == \E k \in 1..Len(trace) : trace[k].k = "wx"

\* C20: when a write fails while close_communication of the power supply
\* turns the channels off, close has still tried every channel and
\* released the transport when it ends, and it ends with the error.
C20_CloseBestEffort ==
    (Ended("HMP2030.close_communication") /\ Faulted)
        => /\ result[1] = "raise"
           /\ hmp.conn = "closed"
           /\ \A c \in Channels :
                \E k \in 1..Len(trace) :
                    trace[k].c = "INST OUT" /\ trace[k].v = c
\* The suspended caller is inside _command_wait: it has written its
\* command, and no reply to a completion query has confirmed it yet.
OtherUnconfirmed ==
    /\ other.stack # <<>>
    /\ LET g == Last(other.stack)
       IN  /\ g.fn = "_command_wait"
           /\ g.pc # 116
           /\ Instr(g).k \in {"write", "query"}

\* C21: no caller writes to the transport while the command of another
\* caller's _command_wait is written and not yet confirmed.
C21_NoOverlap == [][DoWrite => ~OtherUnconfirmed]_vars

\* The commands that switch the output on in mode m ("LIST" or "SWE"),
\* given the output state and the mode that the status queries returned.
OnCommands(m, run, mode) ==
    LET switch == IF m = "LIST" THEN <<":FREQ:MODE LIST", ":LIST:SEL">>
                  ELSE <<":FREQ:MODE SWEEP">>
    IN  CASE run /\ mode = m   -> <<>>
          [] ~run /\ mode = m  -> <<":OUTP:STAT ON">>
          [] ~run /\ mode # m  -> switch \o <<":OUTP:STAT ON">>
          [] run /\ mode # m   ->
                <<"OUTP:STAT OFF">> \o switch \o <<":OUTP:STAT ON">>

\* C22: list_on and sweep_on behave as cw_on does.  get_status() called
\* after list_on() returns ("list", True) and after sweep_on() returns
\* ("sweep", True), whatever the instrument state was; the call writes
\* nothing when the output already runs in the requested mode, and when it
\* runs in another mode the output is switched off, then the mode is
\* switched, then the output is switched on.
C22_ListAndSweepOn ==
    /\ (Done("get_status") /\ op.prev.seq = "list_on")
            => result[2] = <<"list", TRUE>>
    /\ (Done("get_status") /\ op.prev.seq = "sweep_on")
            => result[2] = <<"sweep", TRUE>>
    /\ \A m \in {"LIST", "SWE"} :
          Done(IF m = "LIST" THEN "list_on" ELSE "sweep_on") =>
            /\ trace[1].c = "OUTP:STAT?" /\ trace[2].c = ":FREQ:MODE?"
            /\ Commands(trace) = OnCommands(m, trace[1].v = 1, trace[2].v)

\* list_on() has returned; it had found the output running in sweep mode
C22_Witness ==
    /\ Done("list_on") /\ trace[1].v = 1 /\ trace[2].v = "SWE"
    /\ Count(trace, "OUTP:STAT OFF") = 1

\* The operations that branch on the mode or on the output state.
StatusOps ==
    {"off", "cw_on", "list_on", "sweep_on", "set_cw_params", "set_list",
     "set_sweep", "set_ext_trigger", "get_power", "get_frequency"}

\* The operations that switch a running output off before they go on.
OffFirstOps == {"off", "set_cw_params", "set_list", "set_sweep",
                "set_ext_trigger"}

\* C23: every operation that branches on the mode or on the output state
\* reads both from the instrument inside the call, before any other
\* transport call, so what it acts on is the state of the instrument at
\* the call, also when that state was changed at the instrument since the
\* call before.
C23_StatusReadInEveryCall ==
    op.name \in StatusOps =>
        /\ Len(trace) >= 1 =>
                /\ trace[1].k = "q" /\ trace[1].c = "OUTP:STAT?"
                /\ trace[1].v = IF op.pre.running THEN 1 ELSE 0
        /\ Len(trace) >= 2 =>
                /\ trace[2].k = "q" /\ trace[2].c = ":FREQ:MODE?"
                /\ trace[2].v = op.pre.mode
        /\ Ended(op.name) => Len(trace) >= 2
        /\ (Ended(op.name) /\ op.name \in OffFirstOps) =>
                (Count(trace, "OUTP:STAT OFF") = 1 <=> op.pre.running)
        /\ Done("get_power") =>
                trace[3].c = IF op.pre.mode = "LIST" THEN "LIST:POW?"
                             ELSE ":POW?"

\* off() has returned after it switched off an output that was switched on
\* at the instrument after the call before
C23_Witness ==
    /\ Done("off") /\ op.prev.seq = "out_of_band"
    /\ ~op.prev.running /\ op.pre.running
    /\ Count(trace, "OUTP:STAT OFF") = 1

\* The reset operations and the command of each.
ResetOps == {"reset_list_position", "reset_sweep_position"}
ResetCommand(name) ==
    IF name = "reset_list_position" THEN ":LIST:RES" ELSE ":ABOR:SWE"

\* C24 as stated: a reset operation is a single write of the reset command,
\* with no query at all, so it returns without a completion query.
C24_SingleShotNoPolling ==
    (op.name \in ResetOps /\ Done(op.name)) =>
        /\ Len(trace) = 1
        /\ IsWrite(trace[1], ResetCommand(op.name))

\* C24 as amended: a reset operation writes exactly one command, the reset
\* command, through the completion protocol: the command, the
\* synchronisation marker, then completion queries until the reply is 1.
\* It makes no status query and leaves the mode and the output state of
\* the instrument as they were at the call.
C24_ResetThroughProtocol ==
    op.name \in ResetOps =>
        /\ inst.mode = op.pre.mode /\ inst.running = op.pre.running
        /\ \A k \in 1..Len(trace) :
              CASE k = 1 -> IsWrite(trace[k], ResetCommand(op.name))
                [] k = 2 -> IsWrite(trace[k], "*WAI")
                [] OTHER -> IsOpc(trace[k])
        /\ Done(op.name) =>
              /\ Len(trace) >= 3
              /\ trace[Len(trace)].v = 1
              /\ \A k \in 3..(Len(trace) - 1) : trace[k].v # 1

\* reset_list_position() has returned; the list was running
C24_Witness ==
    /\ Done("reset_list_position")
    /\ op.pre.mode = "LIST" /\ op.pre.running
    /\ inst.mode = "LIST" /\ inst.running
    /\ Len(trace) >= 3

\* C25: set_list applies each argument that is given, whether or not the
\* other is given: the frequency list is written when frequencies are
\* given and the power list is written when a power is given.
C25_ListArgumentsIndependent ==
    Done("set_list") =>
        /\ op.a[1] # None => Count(trace, "LIST:FREQ") = 1
        /\ op.a[2] # None => Count(trace, "LIST:POW") = 1

\* C26: with an instrument that does answer the completion query with 1
\* and a transport that returns from every call, every _command_wait call
\* comes to its return, and every operation of the signal source that was
\* called ends.
C26_OperationsTerminate ==
    /\ InWait ~> (InWait /\ Cur.k = "ret")
    /\ Running ~> Idle

\* an operation has returned after one of its _command_wait calls had a
\* completion query answered 0
C26_Witness ==
    /\ Done("set_cw_params") /\ Polls >= 1

\* set_sweep(start, stop, step) has sent its commands and get_frequency(),
\* called at line 401, has returned to it.
SweepReadBack ==
    /\ Running /\ Top.fn = "set_sweep" /\ Top.pc = 402
    /\ AllOfTable(Top.a)

\* The frequencies in Hz that the instrument may hold after a frequency of
\* hz Hz was written with six decimals of a GHz.
AsWritten(hz) == {v * 1000 : v \in FormatGHz(hz)}

\* C27 as stated: after the commands of set_sweep(start, stop, step),
\* get_frequency() in sweep mode reports (start, stop, step).
C27_SweepRoundTrip ==
    SweepReadBack =>
        Top.x[1] = <<Top.a[1][1], Top.a[2][1], Top.a[3][1]>>

\* C27 as amended: after the commands of set_sweep(start, stop, step),
\* get_frequency() in sweep mode reports the start register plus the step
\* register, the stop register and the step register, each as written with
\* six decimals of a GHz; that is (start, stop, step) when the three are
\* whole numbers of kHz.
C27_SweepRoundTripAsWritten ==
    SweepReadBack =>
        LET start == Top.a[1][1]
            stop  == Top.a[2][1]
            step  == Top.a[3][1]
        IN  /\ \E b \in AsWritten(start - step), e \in AsWritten(stop),
                   s \in AsWritten(step) : Top.x[1] = <<b + s, e, s>>
            /\ (\A v \in {start, stop, step} : v % 1000 = 0)
                    => Top.x[1] = <<start, stop, step>>

\* get_frequency() has reported (1 GHz, 2 GHz, 10 MHz) to
\* set_sweep(1 GHz, 2 GHz, 10 MHz), with 990 MHz in the start register
C27_Witness ==
    /\ SweepReadBack
    /\ Top.a = <<Some(1000000000), Some(2000000000), Some(10000000), None>>
    /\ inst.sstart = 990000000
    /\ Top.x[1] = <<1000000000, 2000000000, 10000000>>

\* The commands that change an output of the supply.
OutputCommands ==
    {"OUTP ON", "OUTP OFF", "VOLT", "VOLT:PROT", "FUSE ON", "CURR"}

\* C28: an operation of the supply that is called with a channel other
\* than 1, 2 and 3 writes no command that changes an output, so it does
\* not act on the channel that was selected before.
C28_WrongChannelWritesNothing ==
    (/\ op.name \in ChannelOps
     /\ ChannelOf(op) # None /\ ChannelOf(op)[1] \notin Channels)
        => /\ \A k \in 1..Len(trace) :
                trace[k].k = "w" => trace[k].c \notin OutputCommands
           /\ psu.out = op.pre.out

\* C29: set_ext_trigger with an edge other than "rising" and "falling"
\* leaves the instrument as it was: it writes nothing to the transport, so
\* a running output goes on running and the trigger polarity stays.
C29_UnknownEdgeChangesNothing ==
    (op.name = "set_ext_trigger" /\ op.a[1] \notin {"rising", "falling"})
        => /\ \A k \in 1..Len(trace) : trace[k].k # "w"
           /\ inst.running = op.pre.running

\* C30: when open_communication returns False it leaves nothing behind,
\* whichever step failed: no transport connection is open and the model
\* string is what it was before the call.
C30_FailedOpenLeavesNothing ==
    (Idle /\ op.name = "open_communication" /\ result = <<"ok", FALSE>>)
        => /\ mw.conn # "open"
           /\ mw.model = op.pre.model

\* C31: in the single-axis plugin a change of the "power" setting leaves
\* the output as it was: once commit_settings has returned, the output is
\* running if and only if it was running at the call.
C31_PowerSettingKeepsOutput ==
    (/\ Done("DAQ_Move_RSMWsource.commit_settings")
     /\ op.a[1] = "power")
        => inst.running = op.pre.running

\* close() of an axis of the multi-axis plugin, by the slave axis.
SlaveClose ==
    op.name = "DAQ_Move_MultiRSMWsource.close" /\ ~op.a[1]

\* C32: in the multi-axis plugin the close of a slave axis does not close
\* the communication that the axes share: it makes no call at all, and the
\* communication is closed by the close of the master axis only.  After
\* the close of a slave axis a move of an axis still sets the instrument:
\* the output runs in CW mode.
C32_SlaveCloseKeepsCommunication ==
    /\ SlaveClose => (trace = <<>> /\ mw.conn = op.pre.conn)
    /\ (op.pre.conn = "open" /\ mw.conn # "open") =>
            (op.name = "DAQ_Move_MultiRSMWsource.close" /\ op.a[1])
    /\ (Done("DAQ_Move_MultiRSMWsource.move_abs")
            /\ op.prev.seq = "slave_close") =>
            (mw.conn = "open" /\ inst.running /\ inst.mode = "CW")

\* the Frequency axis has moved after the slave axis was closed: the
\* instrument runs at the new frequency
C32_Witness ==
    /\ Done("DAQ_Move_MultiRSMWsource.move_abs")
    /\ op.a[1] = "Frequency" /\ op.prev.seq = "slave_close"
    /\ mw.conn = "open" /\ inst.running /\ inst.freq = 1500000000
====
